---- MODULE Spec2Model ----
(***************************************************************************)
(* Model of bot.py: the anonymous-submission relay ("Podslushano" bot).    *)
(*                                                                         *)
(* State: the sqlite tables (user_consents, channels, channel_reviewers,   *)
(* deeplinks, submissions), the in-memory USER_STATE map, POLICY_HASH, and *)
(* `out`, the platform calls made by the handler that ran last (in the     *)
(* order the handler makes them).                                          *)
(*                                                                         *)
(* main() builds the Application with Application.builder().token().build()*)
(* and never asks for concurrent_updates, and every handler is registered  *)
(* blocking: the dispatcher awaits one handler to its end before it takes  *)
(* the next update.  A handler is therefore one atomic action here.        *)
(*                                                                         *)
(* The messaging platform is the environment: what get_chat and            *)
(* get_chat_member answer, and whether a publish succeeds, are inputs      *)
(* chosen afresh for every call.                                           *)
(*                                                                         *)
(* The text of a screen is not modelled: a handler's answer to its user is *)
(* the call Reply(uid, tag, sid), where tag is "screen" for the menus, prompts  *)
(* and alerts of the navigation handlers and names the outcome for         *)
(* on_send_buttons and on_moderation.                                      *)
(***************************************************************************)
EXTENDS Integers, Sequences, FiniteSets, TLC

\* ------------------------------------------------------------------ bounds
MaxSubs == 1
PubCap == 2
QueueRows == 30

Users == {1, 2}
Chats == {1, 2}

\* ---------------------------------------------------------- program constants
STATUS_PENDING == "pending"
STATUS_SENT == "sent"
STATUS_REJECTED == "rejected"

DEEPLINK_SALT == 1
QUEUE_LIMIT == 10

NoChat == 0
NoCode == 0
NoFile == ""
NoCursor == -1

ModeNone == "none"
Modes == {ModeNone, "send_pick_channel", "send_wait_content", "ctl_bind_wait",
          "rv_add_wait", "rv_del_wait"}

\* ChatMemberStatus values the platform may report; "error" stands for the
\* call raising (BadRequest, Forbidden, a timeout).
MemberAnswers == {"creator", "administrator", "member", "error"}

\* ------------------------------------------------------------------ state
VARIABLES
    POLICY_HASH,     \* hash of the policy text loaded at process start
    user_consents,   \* table user_consents: user_id -> row (DOMAIN = rows present)
    channels,        \* table channels: chat_id -> row (DOMAIN = rows present)
    channel_reviewers, \* table channel_reviewers: set of <<chat_id, user_id>>
    deeplinks,       \* table deeplinks: set of <<code, chat_id>>, code is the key
    submissions,     \* table submissions: sequence of rows, id = index
    USER_STATE,      \* in-memory per-user dict
    published,       \* per submission id: publishes into its channel so far
    out              \* platform calls of the handler that ran last

vars == <<POLICY_HASH, user_consents, channels, channel_reviewers, deeplinks,
          submissions, USER_STATE, published, out>>

db == <<user_consents, channels, channel_reviewers, deeplinks, submissions>>

\* ------------------------------------------------------------------ values
NoPending == [content_type |-> "none", text |-> "", file_id |-> NoFile]

Pending(ctype, text, fid) == [content_type |-> ctype, text |-> text, file_id |-> fid]

DefaultState == [mode |-> ModeNone, selected_chat_id |-> NoChat,
                 pending |-> NoPending, rv_chat_id |-> NoChat]

\* One platform call.  e: the call; to: the chat or user it addresses (0: the
\* bot owner); tag: which message, or the platform's answer; chat, sid: the
\* channel and submission the message names; c: the content it carries.
Call(e, to, tag, chat, sid, c) ==
    [e |-> e, to |-> to, tag |-> tag, chat |-> chat, sid |-> sid, c |-> c]

\* A message to, or an edit or alert in, the chat of the user who acts; sid is
\* the submission the handler was asked about (0: none).
Reply(uid, tag, sid) == Call("reply", uid, tag, NoChat, sid, NoPending)

Screen(uid) == Reply(uid, "screen", 0)

\* context.bot.send_message to the sender of submission sid.
Notify(uid, tag, sid) == Call("notify", uid, tag, NoChat, sid, NoPending)

\* get_chat / get_chat_member and what the platform answered.
Query(what, who, chat, ans) == Call(what, who, ans, chat, 0, NoPending)

\* ------------------------------------------------------------------ policy
\* sha256 of the policy text: distinct texts give distinct hashes.
load_policy_hash(p) == 100 + p

\* ------------------------------------------------------------------ strings
\* The message texts the model sends, and Python's str functions on them.
TextIn == {"  ", " hi ", "1", "2", "@chan1", "@chan2", "ch!"}

strip(t) ==
    CASE t = "  " -> ""
      [] t = " hi " -> "hi"
      [] OTHER -> t

isdigit(t) == t \in {"1", "2"}

int(t) == IF t = "1" THEN 1 ELSE 2

normalize_channel_input(s) ==
    IF strip(s) = "chan1" THEN "@chan1" ELSE strip(s)

CHANNEL_INPUT_RE(s) == s \in {"@chan1", "@chan2"}

\* The chat a well-formed reference names on the platform.
ChatNamed(ref) == IF ref = "@chan1" THEN 1 ELSE 2

\* ------------------------------------------------------------------ logging
\* event_log: the text names a channel and a submission id, never a user.
event_log(tag, chat, sid) == Call("event", 0, tag, chat, sid, NoPending)

\* ------------------------------------------------------------------ consent
get_user_consent(user_id) ==
    IF user_id \in DOMAIN user_consents
    THEN user_consents[user_id]
    ELSE [accepted |-> -1, policy_hash |-> 0]

set_user_consent(user_id, accepted, policy_hash) ==
    user_consents' =
        [u \in DOMAIN user_consents \cup {user_id} |->
            IF u = user_id
            THEN [accepted |-> accepted, policy_hash |-> policy_hash]
            ELSE user_consents[u]]

\* A check that is content with an acceptance of any policy text.
user_is_allowed_any_policy(user_id) ==
    /\ user_id \in DOMAIN user_consents
    /\ user_consents[user_id].accepted = 1

user_is_allowed(user_id) ==
    /\ user_id \in DOMAIN user_consents
    /\ get_user_consent(user_id).accepted = 1
    /\ get_user_consent(user_id).policy_hash = POLICY_HASH

\* ------------------------------------------------------------------ tables
\* An upsert that replaces the whole row, settings included.
upsert_channel_replace(chat_id, username, owner_user_id, moderation) ==
    channels' =
        [c \in DOMAIN channels \cup {chat_id} |->
            IF c # chat_id THEN channels[c]
            ELSE [username |-> username, owner_user_id |-> owner_user_id,
                  moderation |-> moderation, reviewers_mode |-> "owner"]]

upsert_channel(chat_id, username, owner_user_id, moderation) ==
    channels' =
        [c \in DOMAIN channels \cup {chat_id} |->
            IF c # chat_id THEN channels[c]
            ELSE IF chat_id \in DOMAIN channels
            THEN [channels[chat_id] EXCEPT !.username = username,
                                           !.owner_user_id = owner_user_id]
            ELSE [username |-> username, owner_user_id |-> owner_user_id,
                  moderation |-> moderation, reviewers_mode |-> "owner"]]

set_channel_moderation(chat_id, moderation) ==
    channels' = [c \in DOMAIN channels |->
                    IF c = chat_id
                    THEN [channels[c] EXCEPT !.moderation = moderation]
                    ELSE channels[c]]

set_reviewers_mode(chat_id, mode) ==
    channels' = [c \in DOMAIN channels |->
                    IF c = chat_id
                    THEN [channels[c] EXCEPT !.reviewers_mode = mode]
                    ELSE channels[c]]

add_reviewer(chat_id, user_id) ==
    channel_reviewers' = channel_reviewers \cup {<<chat_id, user_id>>}

remove_reviewer(chat_id, user_id) ==
    channel_reviewers' = channel_reviewers \ {<<chat_id, user_id>>}

list_reviewers(chat_id) == {r[2] : r \in {x \in channel_reviewers : x[1] = chat_id}}

create_deeplink(code, chat_id) ==
    deeplinks' = {d \in deeplinks : d[1] # code} \cup {<<code, chat_id>>}

resolve_deeplink(code) ==
    IF \E d \in deeplinks : d[1] = code
    THEN (CHOOSE d \in deeplinks : d[1] = code)[2]
    ELSE NoChat

\* An insert that files every new row as PENDING.
create_submission_pending(chat_id, sender_user_id, pending, status) ==
    /\ Len(submissions) < MaxSubs
    /\ submissions' = Append(submissions,
           [chat_id |-> chat_id, sender_user_id |-> sender_user_id,
            content_type |-> pending.content_type, text |-> pending.text,
            file_id |-> pending.file_id, status |-> STATUS_PENDING])

create_submission(chat_id, sender_user_id, pending, status) ==
    /\ Len(submissions) < MaxSubs
    /\ submissions' = Append(submissions,
           [chat_id |-> chat_id, sender_user_id |-> sender_user_id,
            content_type |-> pending.content_type, text |-> pending.text,
            file_id |-> pending.file_id, status |-> status])

set_submission_status(sub_id, status) ==
    submissions' = [i \in DOMAIN submissions |->
                       IF i = sub_id
                       THEN [submissions[i] EXCEPT !.status = status]
                       ELSE submissions[i]]

\* ------------------------------------------------------------------ helpers
\* A code that is the same for every channel.
make_code_for_any_chat(chat_id) == 10 + DEEPLINK_SALT

make_code_for_chat(chat_id) == 10 + ((chat_id * 3 + DEEPLINK_SALT) % 7)

\* ------------------------------------------------------------------ permissions
\* A can_moderate that takes any answer of the platform for "is a manager".
can_moderate_any_member(chat_id, user_id, ans) ==
    /\ chat_id \in DOMAIN channels
    /\ \/ user_id = channels[chat_id].owner_user_id
       \/ /\ channels[chat_id].reviewers_mode = "selected"
          /\ user_id \in list_reviewers(chat_id)
       \/ /\ channels[chat_id].reviewers_mode = "admins"
          /\ ans # "error"

\* ans: what get_chat_member answers if it is asked.
can_moderate(chat_id, user_id, ans) ==
    IF chat_id \notin DOMAIN channels THEN FALSE
    ELSE IF user_id = channels[chat_id].owner_user_id THEN TRUE
    ELSE IF channels[chat_id].reviewers_mode = "owner" THEN FALSE
    ELSE IF channels[chat_id].reviewers_mode = "selected"
         THEN user_id \in list_reviewers(chat_id)
    ELSE IF channels[chat_id].reviewers_mode = "admins"
         THEN ans \in {"administrator", "creator"}
    ELSE FALSE

\* The platform call can_moderate makes: only under "admins", for a non-owner.
can_moderate_calls(chat_id, user_id, ans) ==
    IF /\ chat_id \in DOMAIN channels
       /\ user_id # channels[chat_id].owner_user_id
       /\ channels[chat_id].reviewers_mode = "admins"
    THEN <<Query("get_chat_member", user_id, chat_id, ans)>>
    ELSE <<>>

\* ------------------------------------------------------------------ user state
\* st(uid): the dict is made on first use with these values, so a user without
\* one is a user with the default one.
st(uid) == USER_STATE[uid]

SetState(uid, s) == USER_STATE' = [USER_STATE EXCEPT ![uid] = s]

\* A reset that forgets the content but keeps the selected channel.
reset_send_keeps_channel(uid) ==
    SetState(uid, [st(uid) EXCEPT !.mode = ModeNone, !.pending = NoPending])

reset_send(uid) ==
    SetState(uid, [st(uid) EXCEPT !.mode = ModeNone,
                                  !.selected_chat_id = NoChat,
                                  !.pending = NoPending])

\* ------------------------------------------------------------------ consent gate
\* The handler made the calls `calls` and changed nothing.
Answer(calls) ==
    /\ out' = calls
    /\ UNCHANGED <<POLICY_HASH, db, USER_STATE, published>>

\* ensure_consent_or_show returned False: the policy is shown and the handler
\* returns.
ensure_consent_or_show(uid) == Answer(<<Reply(uid, "policy", 0)>>)

\* ------------------------------------------------------------------ core actions
\* A content handed to the platform exactly as it is stored.
SentAsStored(pending) == pending

\* What the platform is handed for a content: text and captions are stripped,
\* a text message carries no file.
Sent(pending) ==
    Pending(pending.content_type, strip(pending.text),
            IF pending.content_type = "text" THEN NoFile ELSE pending.file_id)

\* post_to_channel for submission sub_id (0: a direct post); tag: "ok", or
\* "error" when the platform raises.
post_to_channel(chat_id, pending, sub_id, tag) ==
    Call("publish", chat_id, tag, chat_id, sub_id, Sent(pending))

\* A ticket sent to the operator of the bot instead of the channel's owner.
send_ticket_to_operator(owner_user_id, sub_id, pending) ==
    Call("ticket", 0, "new", NoChat, sub_id, Sent(pending))

send_ticket_to_owner(owner_user_id, sub_id, pending) ==
    Call("ticket", owner_user_id, "new", NoChat, sub_id, Sent(pending))

Bump(n) == IF n < PubCap THEN n + 1 ELSE PubCap

\* ------------------------------------------------------------------ handlers
\* A start that, besides selecting the channel of the code, puts the user
\* into the mode of picking a channel.
start_cmd_enters_pick(uid, code) ==
    IF ~user_is_allowed(uid) THEN ensure_consent_or_show(uid)
    ELSE IF code # NoCode /\ resolve_deeplink(code) # NoChat
    THEN /\ SetState(uid, [st(uid) EXCEPT !.selected_chat_id = resolve_deeplink(code),
                                          !.mode = "send_pick_channel"])
         /\ out' = <<Screen(uid)>>
         /\ UNCHANGED <<POLICY_HASH, db, published>>
    ELSE Answer(<<Screen(uid)>>)

start_cmd(uid, code) ==
    IF ~user_is_allowed(uid) THEN ensure_consent_or_show(uid)
    ELSE IF code # NoCode /\ resolve_deeplink(code) # NoChat
    THEN /\ SetState(uid, [st(uid) EXCEPT !.selected_chat_id = resolve_deeplink(code)])
         /\ out' = <<Screen(uid)>>
         /\ UNCHANGED <<POLICY_HASH, db, published>>
    ELSE Answer(<<Screen(uid)>>)

on_policy_callbacks(uid, data) ==
    /\ data \in {"policy_accept", "policy_decline"}
    /\ set_user_consent(uid, IF data = "policy_accept" THEN 1 ELSE 0, POLICY_HASH)
    /\ out' = <<event_log(data, NoChat, 0), Reply(uid, data, 0)>>
    /\ UNCHANGED <<POLICY_HASH, channels, channel_reviewers, deeplinks,
                   submissions, USER_STATE, published>>

\* on_menu, one action per callback_data it dispatches on.
on_menu_back(uid) ==
    IF ~user_is_allowed(uid) THEN ensure_consent_or_show(uid)
    ELSE /\ reset_send(uid)
         /\ out' = <<Screen(uid)>>
         /\ UNCHANGED <<POLICY_HASH, db, published>>

\* menu_policy, menu_send, menu_control, ctl_list, ch_open, ch_reviewers_manage:
\* a screen is shown, nothing is written.
on_menu_show(uid) ==
    IF ~user_is_allowed(uid) THEN ensure_consent_or_show(uid)
    ELSE Answer(<<Screen(uid)>>)

on_menu_enter(uid, data) ==
    IF ~user_is_allowed(uid) THEN ensure_consent_or_show(uid)
    ELSE /\ data \in {"send_pick_channel", "ctl_bind"}
         /\ SetState(uid, [st(uid) EXCEPT !.mode =
                IF data = "ctl_bind" THEN "ctl_bind_wait" ELSE "send_pick_channel"])
         /\ out' = <<Screen(uid)>>
         /\ UNCHANGED <<POLICY_HASH, db, published>>

\* row and int(row[2]) == uid
IsOwner(chat_id, uid) ==
    chat_id \in DOMAIN channels /\ channels[chat_id].owner_user_id = uid

\* A toggle that puts the reviewers mode back to "owner" as well.
on_menu_ch_toggle_resets_mode(uid, chat_id) ==
    LET allowed == /\ uid \in DOMAIN user_consents
                   /\ user_consents[uid].accepted = 1
                   /\ user_consents[uid].policy_hash = POLICY_HASH
        owner == chat_id \in DOMAIN channels /\ channels[chat_id].owner_user_id = uid
        reply(tag) == [e |-> "reply", to |-> uid, tag |-> tag, chat |-> NoChat,
                       sid |-> 0, c |-> NoPending]
    IN  IF ~allowed
        THEN /\ out' = <<reply("policy")>>
             /\ UNCHANGED <<POLICY_HASH, db, USER_STATE, published>>
        ELSE IF ~owner
        THEN /\ out' = <<reply("screen")>>
             /\ UNCHANGED <<POLICY_HASH, db, USER_STATE, published>>
        ELSE /\ channels' = [channels EXCEPT
                    ![chat_id].moderation = IF @ = 1 THEN 0 ELSE 1,
                    ![chat_id].reviewers_mode = "owner"]
             /\ out' = <<reply("screen"),
                         [e |-> "event", to |-> 0, tag |-> "moderation_toggled",
                          chat |-> chat_id, sid |-> 0, c |-> NoPending]>>
             /\ UNCHANGED <<POLICY_HASH, user_consents, channel_reviewers, deeplinks,
                            submissions, USER_STATE, published>>

on_menu_ch_toggle(uid, chat_id) ==
    IF ~user_is_allowed(uid) THEN ensure_consent_or_show(uid)
    ELSE IF ~IsOwner(chat_id, uid) THEN Answer(<<Screen(uid)>>)
    ELSE LET new_val == IF channels[chat_id].moderation = 1 THEN 0 ELSE 1 IN
         /\ set_channel_moderation(chat_id, new_val)
         /\ out' = <<Screen(uid), event_log("moderation_toggled", chat_id, 0)>>
         /\ UNCHANGED <<POLICY_HASH, user_consents, channel_reviewers, deeplinks,
                        submissions, USER_STATE, published>>

\* order[(order.index(reviewers_mode) + 1) % len(order)]
\* The cycle run the other way round.
NextModeBackwards(reviewers_mode) ==
    CASE reviewers_mode = "owner" -> "selected"
      [] reviewers_mode = "selected" -> "admins"
      [] OTHER -> "owner"

NextMode(reviewers_mode) ==
    CASE reviewers_mode = "owner" -> "admins"
      [] reviewers_mode = "admins" -> "selected"
      [] OTHER -> "owner"

on_menu_ch_reviewers_mode(uid, chat_id) ==
    IF ~user_is_allowed(uid) THEN ensure_consent_or_show(uid)
    ELSE IF ~IsOwner(chat_id, uid) THEN Answer(<<Screen(uid)>>)
    ELSE /\ set_reviewers_mode(chat_id, NextMode(channels[chat_id].reviewers_mode))
         /\ out' = <<Screen(uid), event_log("reviewers_mode_changed", chat_id, 0)>>
         /\ UNCHANGED <<POLICY_HASH, user_consents, channel_reviewers, deeplinks,
                        submissions, USER_STATE, published>>

on_menu_rv(uid, data, chat_id) ==
    IF ~user_is_allowed(uid) THEN ensure_consent_or_show(uid)
    ELSE IF ~IsOwner(chat_id, uid) THEN Answer(<<Screen(uid)>>)
    ELSE /\ data \in {"rv_add", "rv_del"}
         /\ SetState(uid, [st(uid) EXCEPT
                !.mode = IF data = "rv_add" THEN "rv_add_wait" ELSE "rv_del_wait",
                !.rv_chat_id = chat_id])
         /\ out' = <<Screen(uid)>>
         /\ UNCHANGED <<POLICY_HASH, db, published>>

on_menu_ch_link(uid, chat_id) ==
    IF ~user_is_allowed(uid) THEN ensure_consent_or_show(uid)
    ELSE IF ~IsOwner(chat_id, uid) THEN Answer(<<Screen(uid)>>)
    ELSE /\ create_deeplink(make_code_for_chat(chat_id), chat_id)
         /\ out' = <<Screen(uid), event_log("link_generated", chat_id, 0)>>
         /\ UNCHANGED <<POLICY_HASH, user_consents, channels, channel_reviewers,
                        submissions, USER_STATE, published>>

\* A verify_bind that is content with an administrator.
verify_bind_admin(channel_input, user_id, access, bot, usr) ==
    LET chat_id == ChatNamed(channel_input)
        q1 == Query("get_chat", 0, chat_id, IF access THEN "ok" ELSE "error")
        q2 == Query("get_chat_member", 0, chat_id, bot)
        q3 == Query("get_chat_member", user_id, chat_id, usr)
    IN  IF ~access
        THEN [ok |-> FALSE, chat_id |-> NoChat, calls |-> <<q1>>]
        ELSE IF bot # "administrator"
        THEN [ok |-> FALSE, chat_id |-> NoChat, calls |-> <<q1, q2>>]
        ELSE IF usr \notin {"creator", "administrator"}
        THEN [ok |-> FALSE, chat_id |-> NoChat, calls |-> <<q1, q2, q3>>]
        ELSE [ok |-> TRUE, chat_id |-> chat_id, calls |-> <<q1, q2, q3>>]

\* verify_bind.  access: get_chat answers; bot, usr: what get_chat_member
\* answers for the bot and for the user.  The result: ok, the chat, and the
\* platform calls made.
verify_bind(channel_input, user_id, access, bot, usr) ==
    LET chat_id == ChatNamed(channel_input)
        q1 == Query("get_chat", 0, chat_id, IF access THEN "ok" ELSE "error")
        q2 == Query("get_chat_member", 0, chat_id, bot)
        q3 == Query("get_chat_member", user_id, chat_id, usr)
    IN  IF ~access
        THEN [ok |-> FALSE, chat_id |-> NoChat, calls |-> <<q1>>]
        ELSE IF bot = "error"
        THEN [ok |-> FALSE, chat_id |-> NoChat, calls |-> <<q1, q2>>]
        ELSE IF bot # "administrator"
        THEN [ok |-> FALSE, chat_id |-> NoChat, calls |-> <<q1, q2>>]
        ELSE IF usr = "error"
        THEN [ok |-> FALSE, chat_id |-> NoChat, calls |-> <<q1, q2, q3>>]
        ELSE IF usr # "creator"
        THEN [ok |-> FALSE, chat_id |-> NoChat, calls |-> <<q1, q2, q3>>]
        ELSE [ok |-> TRUE, chat_id |-> chat_id, calls |-> <<q1, q2, q3>>]

\* The username get_chat reports for a chat.
UsernameOf(chat_id) == IF chat_id = 1 THEN "chan1" ELSE "chan2"

\* A lookup that is content with a name the platform resolves.
ensure_resolvable_channel(channel_input, access) ==
    IF access THEN ChatNamed(channel_input) ELSE NoChat

ensure_registered_channel(channel_input, access) ==
    IF access /\ ChatNamed(channel_input) \in DOMAIN channels
    THEN ChatNamed(channel_input)
    ELSE NoChat

\* A reviewer branch that trusts the check made when the flow was entered.
on_text_reviewers_unchecked(uid, text) ==
    LET s == st(uid)
        chat_id == s.rv_chat_id
    IN  IF ~isdigit(text) THEN Answer(<<Reply(uid, "need_number", 0)>>)
        ELSE /\ IF s.mode = "rv_add_wait"
                THEN add_reviewer(chat_id, int(text))
                ELSE remove_reviewer(chat_id, int(text))
             /\ out' = <<Screen(uid)>>
             /\ SetState(uid, [s EXCEPT !.mode = ModeNone, !.rv_chat_id = NoChat])
             /\ UNCHANGED <<POLICY_HASH, user_consents, channels, deeplinks,
                            submissions, published>>

\* A reviewer branch that refuses a user who is not the owner but leaves that
\* user in the flow.
on_text_reviewers_stays(uid, text) ==
    LET s == USER_STATE[uid]
        chat_id == s.rv_chat_id
        owner == chat_id \in DOMAIN channels /\ channels[chat_id].owner_user_id = uid
        reply(tag) == [e |-> "reply", to |-> uid, tag |-> tag, chat |-> NoChat,
                       sid |-> 0, c |-> NoPending]
        event(tag) == [e |-> "event", to |-> 0, tag |-> tag, chat |-> chat_id,
                       sid |-> 0, c |-> NoPending]
    IN  IF ~owner
        THEN /\ out' = <<reply("access_denied")>>
             /\ UNCHANGED <<POLICY_HASH, db, USER_STATE, published>>
        ELSE IF text \notin {"1", "2"}
        THEN /\ out' = <<reply("need_number")>>
             /\ UNCHANGED <<POLICY_HASH, db, USER_STATE, published>>
        ELSE LET target == IF text = "1" THEN 1 ELSE 2
             IN  /\ IF s.mode = "rv_add_wait"
                    THEN /\ channel_reviewers' = channel_reviewers \cup {<<chat_id, target>>}
                         /\ out' = <<reply("screen"), event("reviewer_added")>>
                    ELSE /\ channel_reviewers' = channel_reviewers \ {<<chat_id, target>>}
                         /\ out' = <<reply("screen"), event("reviewer_removed")>>
                 /\ USER_STATE' = [USER_STATE EXCEPT ![uid].mode = ModeNone,
                                                     ![uid].rv_chat_id = NoChat]
                 /\ UNCHANGED <<POLICY_HASH, user_consents, channels, deeplinks,
                                submissions, published>>

\* on_text, the reviewer branch: mode is rv_add_wait or rv_del_wait.
on_text_reviewers(uid, text) ==
    LET s == st(uid)
        chat_id == s.rv_chat_id
    IN  IF ~IsOwner(chat_id, uid)
        THEN /\ SetState(uid, [s EXCEPT !.mode = ModeNone, !.rv_chat_id = NoChat])
             /\ out' = <<Reply(uid, "access_denied", 0)>>
             /\ UNCHANGED <<POLICY_HASH, db, published>>
        ELSE IF ~isdigit(text) THEN Answer(<<Reply(uid, "need_number", 0)>>)
        ELSE /\ IF s.mode = "rv_add_wait"
                THEN /\ add_reviewer(chat_id, int(text))
                     /\ out' = <<Screen(uid), event_log("reviewer_added", chat_id, 0)>>
                ELSE /\ remove_reviewer(chat_id, int(text))
                     /\ out' = <<Screen(uid), event_log("reviewer_removed", chat_id, 0)>>
             /\ SetState(uid, [s EXCEPT !.mode = ModeNone, !.rv_chat_id = NoChat])
             /\ UNCHANGED <<POLICY_HASH, user_consents, channels, deeplinks,
                            submissions, published>>

\* on_text, the bind branch: mode is ctl_bind_wait.
on_text_bind(uid, text, access, bot, usr) ==
    LET channel_in == normalize_channel_input(text)
        v == verify_bind(channel_in, uid, access, bot, usr)
    IN  IF ~CHANNEL_INPUT_RE(channel_in) THEN Answer(<<Reply(uid, "bad_format", 0)>>)
        ELSE IF ~v.ok THEN Answer(v.calls \o <<Screen(uid)>>)
        ELSE /\ upsert_channel(v.chat_id, UsernameOf(v.chat_id), uid, 1)
             /\ SetState(uid, [st(uid) EXCEPT !.mode = ModeNone])
             /\ out' = v.calls \o <<Screen(uid), event_log("channel_bound", v.chat_id, 0)>>
             /\ UNCHANGED <<POLICY_HASH, user_consents, channel_reviewers, deeplinks,
                            submissions, published>>

\* A pick branch that ends the flow on a text that is no channel reference.
on_text_pick_gives_up(uid, text, access) ==
    LET s == USER_STATE[uid]
        ref == IF text = "chan1" THEN "@chan1" ELSE text
        chat == IF ref = "@chan1" THEN 1 ELSE 2
        reply(tag) == <<[e |-> "reply", to |-> uid, tag |-> tag, chat |-> NoChat,
                         sid |-> 0, c |-> NoPending]>>
    IN  IF ref \notin {"@chan1", "@chan2"}
        THEN /\ USER_STATE' = [USER_STATE EXCEPT ![uid].mode = ModeNone]
             /\ out' = reply("bad_format")
             /\ UNCHANGED <<POLICY_HASH, db, published>>
        ELSE IF ~access \/ chat \notin DOMAIN channels
        THEN /\ out' = reply("not_registered")
             /\ UNCHANGED <<POLICY_HASH, db, USER_STATE, published>>
        ELSE /\ USER_STATE' = [USER_STATE EXCEPT ![uid].selected_chat_id = chat,
                                                 ![uid].mode = "send_wait_content"]
             /\ out' = reply("screen")
             /\ UNCHANGED <<POLICY_HASH, db, published>>

\* on_text, the pick-channel branch: mode is send_pick_channel.
on_text_pick(uid, text, access) ==
    LET channel_in == normalize_channel_input(text)
        registered_chat_id == ensure_registered_channel(channel_in, access)
    IN  IF ~CHANNEL_INPUT_RE(channel_in) THEN Answer(<<Reply(uid, "bad_format", 0)>>)
        ELSE IF registered_chat_id = NoChat
        THEN Answer(<<Reply(uid, "not_registered", 0)>>)
        ELSE /\ SetState(uid, [st(uid) EXCEPT !.selected_chat_id = registered_chat_id,
                                              !.mode = "send_wait_content"])
             /\ out' = <<Screen(uid)>>
             /\ UNCHANGED <<POLICY_HASH, db, published>>

\* An on_text that stages the text whether or not a channel is selected.
on_text_stages_unselected(uid, raw, plat) ==
    LET s == st(uid)
        text == strip(raw)
    IN  IF ~user_is_allowed(uid) THEN ensure_consent_or_show(uid)
        ELSE IF s.mode \in {"rv_add_wait", "rv_del_wait"} THEN on_text_reviewers(uid, text)
        ELSE IF s.mode = "ctl_bind_wait"
        THEN on_text_bind(uid, text, plat[1], plat[2], plat[3])
        ELSE IF s.mode = "send_pick_channel"
        THEN on_text_pick(uid, text, plat[1])
        ELSE IF text = "" THEN Answer(<<Screen(uid)>>)
        ELSE /\ SetState(uid, [s EXCEPT !.pending = Pending("text", text, NoFile),
                                        !.mode = "send_wait_content"])
             /\ out' = <<Screen(uid)>>
             /\ UNCHANGED <<POLICY_HASH, db, published>>

\* plat: what the platform answers this handler's queries, <<get_chat succeeds,
\* get_chat_member for the bot, get_chat_member for the user>>.
on_text(uid, raw, plat) ==
    LET s == st(uid)
        text == strip(raw)
    IN  IF ~user_is_allowed(uid) THEN ensure_consent_or_show(uid)
        ELSE IF s.mode \in {"rv_add_wait", "rv_del_wait"} THEN on_text_reviewers(uid, text)
        ELSE IF s.mode = "ctl_bind_wait"
        THEN on_text_bind(uid, text, plat[1], plat[2], plat[3])
        ELSE IF s.mode = "send_pick_channel"
        THEN on_text_pick(uid, text, plat[1])
        ELSE IF s.selected_chat_id # NoChat /\ s.mode \in {ModeNone, "send_wait_content"}
        THEN IF text = "" THEN Answer(<<Screen(uid)>>)
             ELSE /\ SetState(uid, [s EXCEPT !.pending = Pending("text", text, NoFile),
                                             !.mode = "send_wait_content"])
                  /\ out' = <<Screen(uid)>>
                  /\ UNCHANGED <<POLICY_HASH, db, published>>
        ELSE Answer(<<Screen(uid)>>)

\* An on_media that stages the file whether or not a channel is selected.
on_media_unselected(uid, content_type, file_id, caption) ==
    IF ~(/\ uid \in DOMAIN user_consents
         /\ user_consents[uid].accepted = 1
         /\ user_consents[uid].policy_hash = POLICY_HASH)
    THEN /\ out' = <<[e |-> "reply", to |-> uid, tag |-> "policy", chat |-> NoChat,
                      sid |-> 0, c |-> NoPending]>>
         /\ UNCHANGED <<POLICY_HASH, db, USER_STATE, published>>
    ELSE /\ USER_STATE' = [USER_STATE EXCEPT
                ![uid].pending = [content_type |-> content_type, text |-> caption,
                                  file_id |-> file_id],
                ![uid].mode = "send_wait_content"]
         /\ out' = <<[e |-> "reply", to |-> uid, tag |-> "screen", chat |-> NoChat,
                      sid |-> 0, c |-> NoPending]>>
         /\ UNCHANGED <<POLICY_HASH, db, published>>

on_media(uid, content_type, file_id, caption) ==
    IF ~user_is_allowed(uid) THEN ensure_consent_or_show(uid)
    ELSE IF st(uid).selected_chat_id = NoChat THEN Answer(<<Screen(uid)>>)
    ELSE /\ SetState(uid, [st(uid) EXCEPT
                !.pending = Pending(content_type, caption, file_id),
                !.mode = "send_wait_content"])
         /\ out' = <<Screen(uid)>>
         /\ UNCHANGED <<POLICY_HASH, db, published>>

\* A confirm that files the row of a direct post before it publishes, so the
\* row is there when the platform refuses.
send_confirm_records_first(uid, pub_ok) ==
    LET s == st(uid)
        chat_id == s.selected_chat_id
        pending == s.pending
        sub_id == Len(submissions) + 1
        moderated == chat_id \in DOMAIN channels /\ channels[chat_id].moderation = 1
    IN  IF chat_id \notin DOMAIN channels
        THEN /\ reset_send(uid)
             /\ out' = <<Reply(uid, "channel_unregistered", 0)>>
             /\ UNCHANGED <<POLICY_HASH, db, published>>
        ELSE /\ create_submission(chat_id, uid, pending,
                                  IF moderated THEN STATUS_PENDING ELSE STATUS_SENT)
             /\ published' = Append(published,
                                    IF ~moderated /\ pub_ok THEN 1 ELSE 0)
             /\ out' = IF moderated
                       THEN <<Reply(uid, "queued", 0),
                              send_ticket_to_owner(channels[chat_id].owner_user_id,
                                                   sub_id, pending),
                              event_log("queued", chat_id, sub_id)>>
                       ELSE IF pub_ok
                       THEN <<post_to_channel(chat_id, pending, 0, "ok"),
                              Reply(uid, "sent", 0),
                              event_log("sent_directly", chat_id, 0)>>
                       ELSE <<post_to_channel(chat_id, pending, 0, "error"),
                              Reply(uid, "publish_error", 0),
                              event_log("publish_error", chat_id, 0)>>
             /\ reset_send(uid)
             /\ UNCHANGED <<POLICY_HASH, user_consents, channels, channel_reviewers,
                            deeplinks>>

\* on_send_buttons, send_confirm with a channel and staged content.
\* pub_ok: whether the platform accepts the publish.
send_confirm(uid, pub_ok) ==
    LET s == st(uid)
        chat_id == s.selected_chat_id
        pending == s.pending
        sub_id == Len(submissions) + 1
    IN  IF chat_id \notin DOMAIN channels
        THEN /\ reset_send(uid)
             /\ out' = <<Reply(uid, "channel_unregistered", 0)>>
             /\ UNCHANGED <<POLICY_HASH, db, published>>
        ELSE IF channels[chat_id].moderation = 1
        THEN /\ create_submission(chat_id, uid, pending, STATUS_PENDING)
             /\ published' = Append(published, 0)
             /\ out' = <<Reply(uid, "queued", 0),
                         send_ticket_to_owner(channels[chat_id].owner_user_id,
                                              sub_id, pending),
                         event_log("queued", chat_id, sub_id)>>
             /\ reset_send(uid)
             /\ UNCHANGED <<POLICY_HASH, user_consents, channels, channel_reviewers,
                            deeplinks>>
        ELSE IF pub_ok
        THEN /\ create_submission(chat_id, uid, pending, STATUS_SENT)
             /\ published' = Append(published, 1)
             /\ out' = <<post_to_channel(chat_id, pending, 0, "ok"),
                         Reply(uid, "sent", 0),
                         event_log("sent_directly", chat_id, 0)>>
             /\ reset_send(uid)
             /\ UNCHANGED <<POLICY_HASH, user_consents, channels, channel_reviewers,
                            deeplinks>>
        ELSE /\ reset_send(uid)
             /\ out' = <<post_to_channel(chat_id, pending, 0, "error"),
                         Reply(uid, "publish_error", 0),
                         event_log("publish_error", chat_id, 0)>>
             /\ UNCHANGED <<POLICY_HASH, db, published>>

\* on_send_buttons without the consent gate.
on_send_buttons_ungated(uid, data) ==
    LET s == st(uid)
    IN  IF data = "send_cancel"
        THEN /\ reset_send(uid)
             /\ out' = <<Reply(uid, "cancelled", 0)>>
             /\ UNCHANGED <<POLICY_HASH, db, published>>
        ELSE IF s.selected_chat_id = NoChat \/ s.pending = NoPending
        THEN /\ reset_send(uid)
             /\ out' = <<Reply(uid, "nothing_to_send", 0)>>
             /\ UNCHANGED <<POLICY_HASH, db, published>>
        ELSE \E pub_ok \in BOOLEAN : send_confirm(uid, pub_ok)

on_send_buttons(uid, data) ==
    LET s == st(uid)
    IN  IF ~user_is_allowed(uid) THEN ensure_consent_or_show(uid)
        ELSE IF data = "send_cancel"
        THEN /\ reset_send(uid)
             /\ out' = <<Reply(uid, "cancelled", 0)>>
             /\ UNCHANGED <<POLICY_HASH, db, published>>
        ELSE IF s.selected_chat_id = NoChat \/ s.pending = NoPending
        THEN /\ reset_send(uid)
             /\ out' = <<Reply(uid, "nothing_to_send", 0)>>
             /\ UNCHANGED <<POLICY_HASH, db, published>>
        ELSE IF s.selected_chat_id \in DOMAIN channels
                /\ channels[s.selected_chat_id].moderation # 1
        THEN \E pub_ok \in BOOLEAN : send_confirm(uid, pub_ok)
        ELSE send_confirm(uid, TRUE)

\* A status check that lets every row through.
is_pending_any(row) == TRUE

\* status == STATUS_PENDING
is_pending(row) == row.status = STATUS_PENDING

\* An approve that writes SENT whether or not the publish went through.
approve_marks_sent(uid, sub_id, asked, pub_ok) ==
    LET row == submissions[sub_id]
        pending == Pending(row.content_type, row.text, row.file_id)
    IN  /\ set_submission_status(sub_id, STATUS_SENT)
        /\ published' = [published EXCEPT ![sub_id] = IF pub_ok THEN Bump(@) ELSE @]
        /\ out' = asked \o
             <<Notify(row.sender_user_id, "approved", sub_id),
               post_to_channel(row.chat_id, pending, sub_id,
                               IF pub_ok THEN "ok" ELSE "error"),
               Reply(uid, IF pub_ok THEN "approved_published" ELSE "publish_error",
                     sub_id)>>
        /\ UNCHANGED <<POLICY_HASH, user_consents, channels,
                       channel_reviewers, deeplinks, USER_STATE>>

\* An approve whose event names the sender instead of the submission.
approve_names_sender(uid, sub_id, asked, pub_ok) ==
    LET row == submissions[sub_id]
        pending == Pending(row.content_type, row.text, row.file_id)
    IN  IF pub_ok
        THEN /\ set_submission_status(sub_id, STATUS_SENT)
             /\ published' = [published EXCEPT ![sub_id] = Bump(@)]
             /\ out' = asked \o
                  <<Notify(row.sender_user_id, "approved", sub_id),
                    post_to_channel(row.chat_id, pending, sub_id, "ok"),
                    Notify(row.sender_user_id, "sent", sub_id),
                    Reply(uid, "approved_published", sub_id),
                    event_log("approved_sent", row.chat_id, row.sender_user_id)>>
             /\ UNCHANGED <<POLICY_HASH, user_consents, channels,
                            channel_reviewers, deeplinks, USER_STATE>>
        ELSE Answer(asked \o
                  <<Notify(row.sender_user_id, "approved", sub_id),
                    post_to_channel(row.chat_id, pending, sub_id, "error"),
                    Reply(uid, "publish_error", sub_id),
                    event_log("publish_error_after_approve", row.chat_id,
                              row.sender_user_id)>>)

\* on_moderation, the approve branch.  asked: the calls can_moderate made;
\* pub_ok: whether the platform accepts the publish.
approve(uid, sub_id, asked, pub_ok) ==
    LET row == submissions[sub_id]
        pending == Pending(row.content_type, row.text, row.file_id)
    IN  IF pub_ok
        THEN /\ set_submission_status(sub_id, STATUS_SENT)
             /\ published' = [published EXCEPT ![sub_id] = Bump(@)]
             /\ out' = asked \o
                  <<Notify(row.sender_user_id, "approved", sub_id),
                    post_to_channel(row.chat_id, pending, sub_id, "ok"),
                    Notify(row.sender_user_id, "sent", sub_id),
                    Reply(uid, "approved_published", sub_id),
                    event_log("approved_sent", row.chat_id, sub_id)>>
             /\ UNCHANGED <<POLICY_HASH, user_consents, channels,
                            channel_reviewers, deeplinks, USER_STATE>>
        ELSE Answer(asked \o
                  <<Notify(row.sender_user_id, "approved", sub_id),
                    post_to_channel(row.chat_id, pending, sub_id, "error"),
                    Reply(uid, "publish_error", sub_id),
                    event_log("publish_error_after_approve", row.chat_id, sub_id)>>)

\* on_moderation, the reject branch.
reject(uid, sub_id, asked) ==
    LET row == submissions[sub_id]
    IN  /\ set_submission_status(sub_id, STATUS_REJECTED)
        /\ out' = asked \o
             <<Notify(row.sender_user_id, "rejected", sub_id),
               Reply(uid, "rejected", sub_id),
               event_log("rejected", row.chat_id, sub_id)>>
        /\ UNCHANGED <<POLICY_HASH, user_consents, channels,
                       channel_reviewers, deeplinks, USER_STATE, published>>

\* A decision that trusts the ticket's buttons: can_moderate is not asked.
decide_unchecked(uid, data, sub_id, ans) ==
    IF ~is_pending(submissions[sub_id])
    THEN Answer(<<Reply(uid, "already_processed", sub_id)>>)
    ELSE IF data = "mod_ok"
    THEN \E pub_ok \in BOOLEAN : approve(uid, sub_id, <<>>, pub_ok)
    ELSE reject(uid, sub_id, <<>>)

\* A decision that does not look at the status of the row.
decide_stale(uid, data, sub_id, ans) ==
    LET row == submissions[sub_id]
        asked == can_moderate_calls(row.chat_id, uid, ans)
    IN  IF ~can_moderate(row.chat_id, uid, ans)
        THEN Answer(asked \o <<Reply(uid, "access_denied", sub_id)>>)
        ELSE IF data = "mod_ok"
        THEN \E pub_ok \in BOOLEAN : approve(uid, sub_id, asked, pub_ok)
        ELSE reject(uid, sub_id, asked)

\* on_moderation once the row is read.  ans: what get_chat_member answers
\* can_moderate, if it is asked.
decide(uid, data, sub_id, ans) ==
    LET row == submissions[sub_id]
        asked == can_moderate_calls(row.chat_id, uid, ans)
    IN  IF ~is_pending(row) THEN Answer(<<Reply(uid, "already_processed", sub_id)>>)
        ELSE IF ~can_moderate(row.chat_id, uid, ans)
        THEN Answer(asked \o <<Reply(uid, "access_denied", sub_id)>>)
        ELSE IF data = "mod_ok"
        THEN \E pub_ok \in BOOLEAN : approve(uid, sub_id, asked, pub_ok)
        ELSE reject(uid, sub_id, asked)

on_moderation(uid, data, sub_id) ==
    IF ~user_is_allowed(uid) THEN ensure_consent_or_show(uid)
    ELSE IF sub_id \notin DOMAIN submissions
    THEN Answer(<<Reply(uid, "not_found", sub_id)>>)
    ELSE IF can_moderate_calls(submissions[sub_id].chat_id, uid, "member") = <<>>
    THEN decide(uid, data, sub_id, "member")
    ELSE \E ans \in MemberAnswers : decide(uid, data, sub_id, ans)

\* ------------------------------------------------------------------ lost messages
\* The handlers once more, with the platform refusing some of the messages
\* the bot sends besides its answer: net is the set of kinds (ticket, notify,
\* event) whose send raises.  Each of these sends sits in a try whose except
\* passes, so the handler goes on; the call is recorded as undelivered.
BestEffort == {"ticket", "notify", "event"}

\* The failures tried: none; the messages to the users; the messages to the
\* operator; all.  A confirm sends a ticket and an event, a decision notices
\* and an event, so each handler meets each of its messages failing alone.
Nets == {{}, {"ticket", "notify"}, {"event"}, BestEffort}

Undelivered(call) == [call EXCEPT !.e = "undelivered"]

Try(call, net) == IF call.e \in net THEN Undelivered(call) ELSE call

send_confirm_lossy(uid, pub_ok, net) ==
    LET s == st(uid)
        chat_id == s.selected_chat_id
        pending == s.pending
        sub_id == Len(submissions) + 1
    IN  IF chat_id \notin DOMAIN channels
        THEN /\ reset_send(uid)
             /\ out' = <<Reply(uid, "channel_unregistered", 0)>>
             /\ UNCHANGED <<POLICY_HASH, db, published>>
        ELSE IF channels[chat_id].moderation = 1
        THEN /\ create_submission(chat_id, uid, pending, STATUS_PENDING)
             /\ published' = Append(published, 0)
             /\ out' = <<Reply(uid, "queued", 0),
                         Try(send_ticket_to_owner(channels[chat_id].owner_user_id,
                                                  sub_id, pending), net),
                         Try(event_log("queued", chat_id, sub_id), net)>>
             /\ reset_send(uid)
             /\ UNCHANGED <<POLICY_HASH, user_consents, channels, channel_reviewers,
                            deeplinks>>
        ELSE IF pub_ok
        THEN /\ create_submission(chat_id, uid, pending, STATUS_SENT)
             /\ published' = Append(published, 1)
             /\ out' = <<post_to_channel(chat_id, pending, 0, "ok"),
                         Reply(uid, "sent", 0),
                         Try(event_log("sent_directly", chat_id, 0), net)>>
             /\ reset_send(uid)
             /\ UNCHANGED <<POLICY_HASH, user_consents, channels, channel_reviewers,
                            deeplinks>>
        ELSE /\ reset_send(uid)
             /\ out' = <<post_to_channel(chat_id, pending, 0, "error"),
                         Reply(uid, "publish_error", 0),
                         Try(event_log("publish_error", chat_id, 0), net)>>
             /\ UNCHANGED <<POLICY_HASH, db, published>>

on_send_buttons_lossy(uid, data, net) ==
    LET s == st(uid)
    IN  IF ~user_is_allowed(uid) THEN ensure_consent_or_show(uid)
        ELSE IF data = "send_cancel"
        THEN /\ reset_send(uid)
             /\ out' = <<Reply(uid, "cancelled", 0)>>
             /\ UNCHANGED <<POLICY_HASH, db, published>>
        ELSE IF s.selected_chat_id = NoChat \/ s.pending = NoPending
        THEN /\ reset_send(uid)
             /\ out' = <<Reply(uid, "nothing_to_send", 0)>>
             /\ UNCHANGED <<POLICY_HASH, db, published>>
        ELSE IF s.selected_chat_id \in DOMAIN channels
                /\ channels[s.selected_chat_id].moderation # 1
        THEN \E pub_ok \in BOOLEAN : send_confirm_lossy(uid, pub_ok, net)
        ELSE send_confirm_lossy(uid, TRUE, net)

\* An approve whose first notice to the sender is sent outside any try: when
\* the send raises, the handler ends there.
approve_unguarded(uid, sub_id, asked, pub_ok, net) ==
    LET row == submissions[sub_id]
        pending == Pending(row.content_type, row.text, row.file_id)
        tag == IF pub_ok THEN "ok" ELSE "error"
    IN  IF "notify" \in net
        THEN /\ out' = asked \o
                  <<[Notify(row.sender_user_id, "approved", sub_id)
                        EXCEPT !.e = "undelivered"]>>
             /\ UNCHANGED <<POLICY_HASH, user_consents, channels, channel_reviewers,
                            deeplinks, submissions, USER_STATE, published>>
        ELSE /\ submissions' =
                    [submissions EXCEPT ![sub_id].status =
                        IF pub_ok THEN STATUS_SENT ELSE @]
             /\ published' = [published EXCEPT ![sub_id] =
                                 IF pub_ok /\ @ < PubCap THEN @ + 1 ELSE @]
             /\ out' = asked \o
                  <<[e |-> "notify", to |-> row.sender_user_id, tag |-> "approved",
                     chat |-> NoChat, sid |-> sub_id, c |-> NoPending],
                    [e |-> "publish", to |-> row.chat_id, tag |-> tag,
                     chat |-> row.chat_id, sid |-> sub_id, c |-> pending]>>
             /\ UNCHANGED <<POLICY_HASH, user_consents, channels, channel_reviewers,
                            deeplinks, USER_STATE>>

approve_lossy(uid, sub_id, asked, pub_ok, net) ==
    LET row == submissions[sub_id]
        pending == Pending(row.content_type, row.text, row.file_id)
    IN  IF pub_ok
        THEN /\ set_submission_status(sub_id, STATUS_SENT)
             /\ published' = [published EXCEPT ![sub_id] = Bump(@)]
             /\ out' = asked \o
                  <<Try(Notify(row.sender_user_id, "approved", sub_id), net),
                    post_to_channel(row.chat_id, pending, sub_id, "ok"),
                    Try(Notify(row.sender_user_id, "sent", sub_id), net),
                    Reply(uid, "approved_published", sub_id),
                    Try(event_log("approved_sent", row.chat_id, sub_id), net)>>
             /\ UNCHANGED <<POLICY_HASH, user_consents, channels,
                            channel_reviewers, deeplinks, USER_STATE>>
        ELSE Answer(asked \o
                  <<Try(Notify(row.sender_user_id, "approved", sub_id), net),
                    post_to_channel(row.chat_id, pending, sub_id, "error"),
                    Reply(uid, "publish_error", sub_id),
                    Try(event_log("publish_error_after_approve", row.chat_id,
                                  sub_id), net)>>)

reject_lossy(uid, sub_id, asked, net) ==
    LET row == submissions[sub_id]
    IN  /\ set_submission_status(sub_id, STATUS_REJECTED)
        /\ out' = asked \o
             <<Try(Notify(row.sender_user_id, "rejected", sub_id), net),
               Reply(uid, "rejected", sub_id),
               Try(event_log("rejected", row.chat_id, sub_id), net)>>
        /\ UNCHANGED <<POLICY_HASH, user_consents, channels,
                       channel_reviewers, deeplinks, USER_STATE, published>>

decide_lossy(uid, data, sub_id, ans, net) ==
    LET row == submissions[sub_id]
        asked == can_moderate_calls(row.chat_id, uid, ans)
    IN  IF ~is_pending(row) THEN Answer(<<Reply(uid, "already_processed", sub_id)>>)
        ELSE IF ~can_moderate(row.chat_id, uid, ans)
        THEN Answer(asked \o <<Reply(uid, "access_denied", sub_id)>>)
        ELSE IF data = "mod_ok"
        THEN \E pub_ok \in BOOLEAN : approve_lossy(uid, sub_id, asked, pub_ok, net)
        ELSE reject_lossy(uid, sub_id, asked, net)

on_moderation_lossy(uid, data, sub_id, net) ==
    IF ~user_is_allowed(uid) THEN ensure_consent_or_show(uid)
    ELSE IF sub_id \notin DOMAIN submissions
    THEN Answer(<<Reply(uid, "not_found", sub_id)>>)
    ELSE IF can_moderate_calls(submissions[sub_id].chat_id, uid, "member") = <<>>
    THEN decide_lossy(uid, data, sub_id, "member", net)
    ELSE \E ans \in MemberAnswers : decide_lossy(uid, data, sub_id, ans, net)

\* ------------------------------------------------------------------ lost answers
\* on_error: the exception a handler did not catch is logged and reported to
\* the operator.
on_error == event_log("error", NoChat, 0)

\* on_send_buttons, send_confirm, in a run in which the platform refuses the
\* handler's answer to the user: q.edit_message_text raises.  What stands after
\* the raising line is not run, except under a finally.
send_confirm_unanswered(uid, pub_ok) ==
    LET s == st(uid)
        chat_id == s.selected_chat_id
        pending == s.pending
    IN  IF chat_id \notin DOMAIN channels
        THEN /\ out' = <<Undelivered(Reply(uid, "channel_unregistered", 0)), on_error>>
             /\ UNCHANGED <<POLICY_HASH, db, USER_STATE, published>>
        ELSE IF channels[chat_id].moderation = 1
        THEN /\ create_submission(chat_id, uid, pending, STATUS_PENDING)
             /\ published' = Append(published, 0)
             /\ out' = <<Undelivered(Reply(uid, "queued", 0)), on_error>>
             /\ UNCHANGED <<POLICY_HASH, user_consents, channels, channel_reviewers,
                            deeplinks, USER_STATE>>
        ELSE IF pub_ok
        THEN /\ create_submission(chat_id, uid, pending, STATUS_SENT)
             /\ published' = Append(published, 1)
             /\ out' = <<post_to_channel(chat_id, pending, 0, "ok"),
                         Undelivered(Reply(uid, "sent", 0)),
                         Undelivered(Reply(uid, "publish_error", 0)),
                         on_error>>
             /\ reset_send(uid)
             /\ UNCHANGED <<POLICY_HASH, user_consents, channels, channel_reviewers,
                            deeplinks>>
        ELSE /\ reset_send(uid)
             /\ out' = <<post_to_channel(chat_id, pending, 0, "error"),
                         Undelivered(Reply(uid, "publish_error", 0)),
                         on_error>>
             /\ UNCHANGED <<POLICY_HASH, db, published>>

on_send_buttons_unanswered(uid, data) ==
    LET s == st(uid)
    IN  IF ~user_is_allowed(uid) THEN ensure_consent_or_show(uid)
        ELSE IF data = "send_cancel"
        THEN /\ reset_send(uid)
             /\ out' = <<Undelivered(Reply(uid, "cancelled", 0)), on_error>>
             /\ UNCHANGED <<POLICY_HASH, db, published>>
        ELSE IF s.selected_chat_id = NoChat \/ s.pending = NoPending
        THEN /\ out' = <<Undelivered(Reply(uid, "nothing_to_send", 0)), on_error>>
             /\ UNCHANGED <<POLICY_HASH, db, USER_STATE, published>>
        ELSE IF s.selected_chat_id \in DOMAIN channels
                /\ channels[s.selected_chat_id].moderation # 1
        THEN \E pub_ok \in BOOLEAN : send_confirm_unanswered(uid, pub_ok)
        ELSE send_confirm_unanswered(uid, TRUE)

\* ------------------------------------------------------------------ queue
\* The ids in S from the highest down: ORDER BY id DESC.
RECURSIVE Desc(_)
Desc(S) ==
    IF S = {} THEN <<>>
    ELSE LET m == CHOOSE x \in S : \A y \in S : y <= x
         IN  <<m>> \o Desc(S \ {m})

\* LIMIT limit OFFSET offset on a list of rows.
LimitOffset(rows, limit, offset) ==
    LET skip == IF offset < 0 THEN 0 ELSE offset
        last == IF skip + limit < Len(rows) THEN skip + limit ELSE Len(rows)
    IN  SubSeq(rows, skip + 1, last)

\* The row of the queue for submission i: id, content_type, text.
QueueRow(i) == <<i, submissions[i].content_type, submissions[i].text>>

\* A listing that forgets to ask for PENDING.
list_submissions_any_status(chat_id, limit, offset) ==
    LET ids == Desc({i \in DOMAIN submissions : submissions[i].chat_id = chat_id})
    IN  LimitOffset([k \in DOMAIN ids |-> QueueRow(ids[k])], limit, offset)

list_pending_submissions(chat_id, limit, offset) ==
    LET ids == Desc({i \in DOMAIN submissions :
                        /\ submissions[i].chat_id = chat_id
                        /\ submissions[i].status = STATUS_PENDING})
    IN  LimitOffset([k \in DOMAIN ids |-> QueueRow(ids[k])], limit, offset)

count_pending_submissions(chat_id) ==
    Cardinality({i \in DOMAIN submissions :
                    /\ submissions[i].chat_id = chat_id
                    /\ submissions[i].status = STATUS_PENDING})

\* queue_kb: one button per item, then the cursors that are offered (NoCursor:
\* the button is not there).
queue_kb(chat_id, items, total, offset, limit) ==
    [items |-> items, total |-> total, offset |-> offset,
     back |-> IF offset > 0
              THEN (IF offset - limit > 0 THEN offset - limit ELSE 0)
              ELSE NoCursor,
     fwd |-> IF offset + limit < total THEN offset + limit ELSE NoCursor]

\* on_menu, ch_queue (offset 0) and q_page.
on_menu_queue(uid, chat_id, offset, ans) ==
    LET asked == can_moderate_calls(chat_id, uid, ans)
        total == count_pending_submissions(chat_id)
        items == list_pending_submissions(chat_id, QUEUE_LIMIT, offset)
    IN  IF ~user_is_allowed(uid) THEN ensure_consent_or_show(uid)
        ELSE IF ~can_moderate(chat_id, uid, ans)
        THEN Answer(asked \o <<Reply(uid, "access_denied", 0)>>)
        ELSE Answer(asked \o
                 <<Call("reply", uid, "queue", chat_id, 0,
                        queue_kb(chat_id, items, total, offset, QUEUE_LIMIT))>>)

\* q_open without the look at the status of the row.
on_menu_q_open_unchecked(uid, chat_id, sid, ans) ==
    LET asked == can_moderate_calls(chat_id, uid, ans)
    IN  IF ~user_is_allowed(uid) THEN ensure_consent_or_show(uid)
        ELSE IF ~can_moderate(chat_id, uid, ans)
        THEN Answer(asked \o <<Reply(uid, "access_denied", 0)>>)
        ELSE IF sid \notin DOMAIN submissions
        THEN Answer(asked \o <<Reply(uid, "already_processed", sid)>>)
        ELSE LET row == submissions[sid]
                 pending == Pending(row.content_type, row.text, row.file_id)
             IN  IF row.content_type = "text"
                 THEN Answer(asked \o
                          <<Call("reply", uid, "ticket", NoChat, sid, pending)>>)
                 ELSE Answer(asked \o <<send_ticket_to_owner(uid, sid, pending)>>)

\* on_menu, q_open: the ticket of a text is shown in place of the page, the
\* ticket of a media is sent to the user as a new message.
on_menu_q_open(uid, chat_id, sid, ans) ==
    LET asked == can_moderate_calls(chat_id, uid, ans)
    IN  IF ~user_is_allowed(uid) THEN ensure_consent_or_show(uid)
        ELSE IF ~can_moderate(chat_id, uid, ans)
        THEN Answer(asked \o <<Reply(uid, "access_denied", 0)>>)
        ELSE IF sid \notin DOMAIN submissions \/ ~is_pending(submissions[sid])
        THEN Answer(asked \o <<Reply(uid, "already_processed", sid)>>)
        ELSE LET row == submissions[sid]
                 pending == Pending(row.content_type, row.text, row.file_id)
             IN  IF row.content_type = "text"
                 THEN Answer(asked \o
                          <<Call("reply", uid, "ticket", NoChat, sid, pending)>>)
                 ELSE Answer(asked \o <<send_ticket_to_owner(uid, sid, pending)>>)

\* The process is started again: the policy file is read anew (p: its text,
\* which may have been edited), USER_STATE starts empty, the database file is
\* kept, polling begins.
Restart(p) ==
    /\ POLICY_HASH' = load_policy_hash(p)
    /\ USER_STATE' = [u \in Users |-> DefaultState]
    /\ out' = <<Call("run_polling", 0, "start", NoChat, 0, NoPending)>>
    /\ UNCHANGED <<db, published>>

\* ------------------------------------------------------------------ specification
Init ==
    /\ POLICY_HASH = load_policy_hash(1)
    /\ user_consents = <<>>
    /\ channels = <<>>
    /\ channel_reviewers = {}
    /\ deeplinks = {}
    /\ submissions = <<>>
    /\ USER_STATE = [u \in Users |-> DefaultState]
    /\ published = <<>>
    /\ out = <<Call("run_polling", 0, "start", NoChat, 0, NoPending)>>

\* Platform answers: all three queries succeed and name the user the creator;
\* the user is an administrator but not the creator.
PlatOk == <<TRUE, "administrator", "creator">>
PlatNotCreator == <<TRUE, "administrator", "administrator">>

\* The moderation workflow: user 1 binds and administers channel 1, user 2
\* submits text into it, both decide.
Next ==
    \/ \E uid \in Users : on_policy_callbacks(uid, "policy_accept")
    \/ on_menu_enter(1, "ctl_bind")
    \/ on_menu_enter(2, "send_pick_channel")
    \/ on_menu_ch_toggle(1, 1)
    \/ on_menu_ch_reviewers_mode(1, 1)
    \/ \E data \in {"rv_add", "rv_del"} : on_menu_rv(1, data, 1)
    \/ \E t \in {"@chan1", "2"}, plat \in {PlatOk, PlatNotCreator} : on_text(1, t, plat)
    \/ \E t \in {"@chan1", " hi "} : on_text(2, t, PlatOk)
    \/ on_send_buttons(2, "send_confirm")
    \/ \E uid \in Users, data \in {"mod_ok", "mod_no"}, sid \in 1..MaxSubs :
          on_moderation(uid, data, sid)

Spec == Init /\ [][Next]_vars

\* Privileges that change under a pending ticket: either user may bind channel
\* 1 (whoever the platform names its creator owns it from then on), the owner
\* cycles the reviewer mode and edits the allow-list, user 2 submits, both
\* decide.
NextReview ==
    \/ \E uid \in Users : on_policy_callbacks(uid, "policy_accept")
    \/ \E uid \in Users : on_menu_enter(uid, "ctl_bind")
    \/ on_menu_enter(2, "send_pick_channel")
    \/ on_menu_ch_reviewers_mode(1, 1)
    \/ \E data \in {"rv_add", "rv_del"} : on_menu_rv(1, data, 1)
    \/ \E t \in {"@chan1", "2"} : on_text(1, t, PlatOk)
    \/ \E t \in {"@chan1", " hi "} : on_text(2, t, PlatOk)
    \/ on_send_buttons(2, "send_confirm")
    \/ \E uid \in Users, data \in {"mod_ok", "mod_no"}, sid \in 1..MaxSubs :
          on_moderation(uid, data, sid)

SpecReview == Init /\ [][NextReview]_vars

\* What the platform can answer a bind: get_chat fails; the bot is not an
\* administrator (or the query fails); the bot is one and the user is reported
\* as any of the member kinds (or the query fails).  A query that is not made
\* has no answer: "error" stands in for it.
BindAnswers ==
    {<<FALSE, "error", "error">>}
    \cup {<<TRUE, b, "error">> : b \in MemberAnswers \ {"administrator"}}
    \cup {<<TRUE, "administrator", u>> : u \in MemberAnswers}

\* Channel administration: both users bind channel 1 under every answer of the
\* platform, and both try every owner-only action on it.
NextAdmin ==
    \/ \E uid \in Users : on_policy_callbacks(uid, "policy_accept")
    \/ \E uid \in Users : on_menu_enter(uid, "ctl_bind")
    \/ \E uid \in Users : on_menu_ch_toggle(uid, 1)
    \/ \E uid \in Users : on_menu_ch_reviewers_mode(uid, 1)
    \/ \E uid \in Users, data \in {"rv_add", "rv_del"} : on_menu_rv(uid, data, 1)
    \/ \E uid \in Users : on_menu_ch_link(uid, 1)
    \/ \E uid \in Users, t \in {"@chan1", "2", "ch!"}, plat \in BindAnswers :
          on_text(uid, t, plat)

SpecAdmin == Init /\ [][NextAdmin]_vars

\* Consent: user 1 owns channel 1 and submits into it, accepts and declines
\* the policy at any point, and the process is restarted with the policy text
\* as it was or edited; every kind of update reaches the bot in every consent
\* state.
NextConsent ==
    \/ \E data \in {"policy_accept", "policy_decline"} : on_policy_callbacks(1, data)
    \/ \E p \in {1, 2} : Restart(p)
    \/ \E code \in {NoCode, make_code_for_chat(1)} : start_cmd(1, code)
    \/ on_menu_show(1)
    \/ \E data \in {"ctl_bind", "send_pick_channel"} : on_menu_enter(1, data)
    \/ on_menu_rv(1, "rv_add", 1)
    \/ on_menu_ch_link(1, 1)
    \/ \E t \in {"@chan1", "2"} : on_text(1, t, PlatOk)
    \/ on_media(1, "photo", "f1", " hi ")
    \/ \E data \in {"send_confirm", "send_cancel"} : on_send_buttons(1, data)
    \/ \E data \in {"mod_ok", "mod_no"}, sid \in 1..MaxSubs :
          on_moderation(1, data, sid)

SpecConsent == Init /\ [][NextConsent]_vars

\* The consent record alone: both users accept and decline, the process is
\* restarted under each of three policy texts, and a menu is asked for.
NextPolicy ==
    \/ \E uid \in Users, data \in {"policy_accept", "policy_decline"} :
          on_policy_callbacks(uid, data)
    \/ \E p \in {1, 2, 3} : Restart(p)
    \/ \E uid \in Users : on_menu_show(uid)

SpecPolicy == Init /\ [][NextPolicy]_vars

\* Sending: user 1 binds channel 1, switches its moderation and reviewer mode
\* and issues its deeplink; user 2 reaches the channel by link or by name,
\* stages text or a photo, confirms, cancels or goes back to the menu; user 1
\* approves what is queued.  The platform resolves the channel name or not.
PlatNoChat == <<FALSE, "error", "error">>

NextSend ==
    \/ \E uid \in Users : on_policy_callbacks(uid, "policy_accept")
    \/ on_menu_enter(1, "ctl_bind")
    \/ on_text(1, "@chan1", PlatOk)
    \/ on_menu_ch_toggle(1, 1)
    \/ on_menu_ch_reviewers_mode(1, 1)
    \/ on_menu_ch_link(1, 1)
    \/ \E code \in {NoCode, make_code_for_chat(1), make_code_for_chat(2)} :
          start_cmd(2, code)
    \/ on_menu_enter(2, "send_pick_channel")
    \/ \E t \in {"@chan1", " hi ", "  "}, plat \in {PlatOk, PlatNoChat} :
          on_text(2, t, plat)
    \/ on_media(2, "photo", "f1", " hi ")
    \/ \E data \in {"send_confirm", "send_cancel"} : on_send_buttons(2, data)
    \/ on_menu_back(2)
    \/ \E sid \in 1..MaxSubs : on_moderation(1, "mod_ok", sid)

SpecSend == Init /\ [][NextSend]_vars

\* Resetting: one user is owner and sender at once and goes through every
\* mode: binding, picking, editing the allow-list, arriving by link, staging
\* text or a photo, confirming; from each of them the user cancels or goes
\* back to the menu.
NextReset ==
    \/ on_policy_callbacks(1, "policy_accept")
    \/ \E data \in {"ctl_bind", "send_pick_channel"} : on_menu_enter(1, data)
    \/ \E data \in {"rv_add", "rv_del"} : on_menu_rv(1, data, 1)
    \/ on_menu_ch_toggle(1, 1)
    \/ on_menu_ch_link(1, 1)
    \/ \E code \in {NoCode, make_code_for_chat(1)} : start_cmd(1, code)
    \/ \E t \in {"@chan1", "2", " hi "} : on_text(1, t, PlatOk)
    \/ on_media(1, "photo", "f1", " hi ")
    \/ \E data \in {"send_confirm", "send_cancel"} : on_send_buttons(1, data)
    \/ on_menu_back(1)

SpecReset == Init /\ [][NextReset]_vars

\* Links: both users bind the two channels (the later bind takes the channel
\* over), issue links for them again and again, and open the bot with the
\* code of a channel, of a channel nobody has a link for, or with none; the
\* bot is restarted in between.
NextLink ==
    \/ \E uid \in Users : on_policy_callbacks(uid, "policy_accept")
    \/ \E uid \in Users : on_menu_enter(uid, "ctl_bind")
    \/ \E uid \in Users, t \in {"@chan1", "@chan2"} : on_text(uid, t, PlatOk)
    \/ \E uid \in Users, chat_id \in Chats : on_menu_ch_link(uid, chat_id)
    \/ \E code \in {NoCode} \cup {make_code_for_chat(c) : c \in Chats \cup {3}} :
          start_cmd(2, code)
    \/ Restart(1)

SpecLink == Init /\ [][NextLink]_vars

\* The queue: both channels belong to user 1, channel 1 lets the users on its
\* allow-list moderate and user 2 is on it; a third user has sent n contents, most
\* of them into channel 1, and every step-th of them has been rejected.  The
\* users turn the pages of the queues, open items, and decide on the first
\* and on the newest submission in between.
Accepted == [accepted |-> 1, policy_hash |-> load_policy_hash(1)]

QueueInitRow(i, step) ==
    [chat_id |-> IF i % 4 = 0 THEN 2 ELSE 1, sender_user_id |-> 3,
     content_type |-> IF i % 3 = 0 THEN "photo" ELSE "text",
     text |-> "hi", file_id |-> IF i % 3 = 0 THEN "f1" ELSE NoFile,
     status |-> IF i % step = 0 THEN STATUS_REJECTED ELSE STATUS_PENDING]

InitQueue ==
    /\ POLICY_HASH = load_policy_hash(1)
    /\ user_consents = [u \in Users \cup {3} |-> Accepted]
    /\ channels = [c \in Chats |->
                      [username |-> UsernameOf(c), owner_user_id |-> 1,
                       moderation |-> 1,
                       reviewers_mode |-> IF c = 1 THEN "selected" ELSE "owner"]]
    /\ channel_reviewers = {<<1, 2>>}
    /\ deeplinks = {}
    /\ \E n \in 0..QueueRows, step \in {5, 7, QueueRows + 1} :
          submissions = [i \in 1..n |-> QueueInitRow(i, step)]
    /\ USER_STATE = [u \in Users |-> DefaultState]
    /\ published = [i \in DOMAIN submissions |-> 0]
    /\ out = <<Call("run_polling", 0, "start", NoChat, 0, NoPending)>>

NextQueue ==
    \/ \E uid \in Users, chat_id \in Chats,
          offset \in {0, 5, QUEUE_LIMIT, 2 * QUEUE_LIMIT, 3 * QUEUE_LIMIT} :
          on_menu_queue(uid, chat_id, offset, "member")
    \/ \E uid \in Users, chat_id \in Chats,
          sid \in {1, 2, 3, Len(submissions), Len(submissions) + 1} :
          on_menu_q_open(uid, chat_id, sid, "member")
    \/ \E uid \in Users, data \in {"mod_ok", "mod_no"},
          sid \in {1, Len(submissions)} :
          on_moderation(uid, data, sid)

SpecQueue == InitQueue /\ [][NextQueue]_vars

\* Lost messages: user 1 binds channel 1 and switches its moderation, user 2
\* picks it, stages a text and confirms, user 1 decides; any of the
\* messages the bot sends besides its answer may fail to go out.
NextLossy ==
    \/ \E uid \in Users : on_policy_callbacks(uid, "policy_accept")
    \/ on_menu_enter(1, "ctl_bind")
    \/ on_text(1, "@chan1", PlatOk)
    \/ on_menu_ch_toggle(1, 1)
    \/ on_menu_enter(2, "send_pick_channel")
    \/ \E t \in {"@chan1", " hi "} : on_text(2, t, PlatOk)
    \/ \E net \in Nets : on_send_buttons_lossy(2, "send_confirm", net)
    \/ \E data \in {"mod_ok", "mod_no"}, sid \in 1..MaxSubs, net \in Nets :
          on_moderation_lossy(1, data, sid, net)

SpecLossy == Init /\ [][NextLossy]_vars

\* Input: both users bind channel 1 (the later bind takes the ownership), user
\* 1 enters the allow-list flows, user 2 picks a channel, and both type a
\* channel name, a number, and texts that are neither.
NextInput ==
    \/ \E uid \in Users : on_policy_callbacks(uid, "policy_accept")
    \/ \E uid \in Users : on_menu_enter(uid, "ctl_bind")
    \/ on_menu_enter(2, "send_pick_channel")
    \/ \E data \in {"rv_add", "rv_del"} : on_menu_rv(1, data, 1)
    \/ \E uid \in Users, t \in {"@chan1", "2", "ch!", "  "},
          plat \in {PlatOk, PlatNoChat} : on_text(uid, t, plat)

SpecInput == Init /\ [][NextInput]_vars

\* Routing: user 1 binds both channels, switches their moderation and issues
\* their links; user 2 selects a channel by link or by name and, whenever a
\* chat is selected, stages as text the number of that chat, so that every
\* staged text tells the chat that was selected when it was staged; user 2
\* confirms.
Label(c) == IF c = 1 THEN "1" ELSE "2"

NextRoute ==
    \/ \E uid \in Users : on_policy_callbacks(uid, "policy_accept")
    \/ on_menu_enter(1, "ctl_bind")
    \/ \E t \in {"@chan1", "@chan2"} : on_text(1, t, PlatOk)
    \/ \E c \in Chats : on_menu_ch_toggle(1, c)
    \/ \E c \in Chats : on_menu_ch_link(1, c)
    \/ \E c \in Chats : start_cmd(2, make_code_for_chat(c))
    \/ on_menu_enter(2, "send_pick_channel")
    \/ \E t \in {"@chan1", "@chan2"} :
          /\ USER_STATE[2].mode = "send_pick_channel"
          /\ on_text(2, t, PlatOk)
    \/ \E c \in Chats :
          /\ USER_STATE[2].selected_chat_id = c
          /\ USER_STATE[2].mode # "send_pick_channel"
          /\ on_text(2, Label(c), PlatOk)
    \/ on_send_buttons(2, "send_confirm")

SpecRoute == Init /\ [][NextRoute]_vars

\* Repeating: user 1 binds channel 1 and switches its moderation; user 2 picks
\* the channel, stages a text or a photo and presses confirm or cancel; the
\* answer to a press reaches user 2 or does not.
NextRetry ==
    \/ \E uid \in Users : on_policy_callbacks(uid, "policy_accept")
    \/ on_menu_enter(1, "ctl_bind")
    \/ on_text(1, "@chan1", PlatOk)
    \/ on_menu_ch_toggle(1, 1)
    \/ on_menu_enter(2, "send_pick_channel")
    \/ \E t \in {"@chan1", " hi "} : on_text(2, t, PlatOk)
    \/ on_media(2, "photo", "f1", " hi ")
    \/ \E data \in {"send_confirm", "send_cancel"} : on_send_buttons(2, data)
    \/ \E data \in {"send_confirm", "send_cancel"} : on_send_buttons_unanswered(2, data)

SpecRetry == Init /\ [][NextRetry]_vars

\* ================================================================== properties
\* The calls of the last handler that are about submission i.
About(calls, i) == {k \in DOMAIN calls : calls[k].sid = i}

\* The users the last handler answered about submission i: who decided on it.
Deciders(calls, i) ==
    {calls[k].to : k \in {j \in About(calls, i) : calls[j].e = "reply"}}

\* What the platform answered when asked whether u manages chat.
AnswerTo(calls, u, chat) ==
    IF \E k \in DOMAIN calls : /\ calls[k].e = "get_chat_member"
                               /\ calls[k].to = u /\ calls[k].chat = chat
    THEN calls[CHOOSE k \in DOMAIN calls : /\ calls[k].e = "get_chat_member"
                                           /\ calls[k].to = u
                                           /\ calls[k].chat = chat].tag
    ELSE "error"

\* The rule of the specification for who may moderate, written from its text.
CanModerateRef(chat_id, user_id, ans) ==
    /\ chat_id \in DOMAIN channels
    /\ \/ channels[chat_id].owner_user_id = user_id
       \/ /\ channels[chat_id].reviewers_mode = "selected"
          /\ <<chat_id, user_id>> \in channel_reviewers
       \/ /\ channels[chat_id].reviewers_mode = "admins"
          /\ ans \in {"administrator", "creator"}

\* C1 (as stated): of the decisions applied to one PENDING submission exactly
\* one succeeds; every other one is answered "already processed", publishes
\* nothing and sends the sender nothing.  So a decision by a permitted reviewer
\* that did not succeed was answered "already processed" and made no
\* notification and no successful publish.
C1_LoserSeesProcessedAndIsSilent ==
    \A i \in DOMAIN submissions : \A k \in About(out, i) :
        (/\ out[k].e = "reply"
         /\ out[k].tag \notin {"approved_published", "rejected", "access_denied"})
        => /\ out[k].tag = "already_processed"
           /\ \A j \in About(out, i) :
                 /\ out[j].e # "notify"
                 /\ ~(out[j].e = "publish" /\ out[j].tag = "ok")

\* C2: a row of submissions changes only in its status, only from PENDING, and
\* only to SENT or REJECTED; a row that is SENT or REJECTED never changes again,
\* and no row is ever removed.
C2_StatusOneWay ==
    [][\A i \in DOMAIN submissions :
          /\ i \in DOMAIN submissions'
          /\ submissions'[i] # submissions[i]
             => /\ submissions[i].status = STATUS_PENDING
                /\ submissions'[i].status \in {STATUS_SENT, STATUS_REJECTED}
                /\ submissions'[i] =
                      [submissions[i] EXCEPT !.status = submissions'[i].status]]_vars

\* C2 witness: a second decision arrived for a submission already SENT and was
\* turned away.
C2_DecidedTwice ==
    \E u \in Users :
        /\ out = <<Reply(u, "already_processed", 1)>>
        /\ submissions[1].status = STATUS_SENT

\* C3: when the publish of an approve fails, the submission is still PENDING
\* and was not published, the reviewer is told of the failure, and the same
\* reviewer approving again makes the handler call the platform to publish
\* again.
C3_PublishFailureKeepsPending ==
    \A i \in DOMAIN submissions : \A k \in About(out, i) :
        (out[k].e = "publish" /\ out[k].tag = "error")
        => /\ submissions[i].status = STATUS_PENDING
           /\ published[i] = 0
           /\ \E j \in About(out, i) :
                 /\ j > k
                 /\ out[j].e = "reply"
                 /\ out[j].tag = "publish_error"
                 /\ ENABLED (/\ on_moderation(out[j].to, "mod_ok", i)
                             /\ \E n \in About(out', i) : out'[n].e = "publish")

\* C3 witness: an approve of submission 1 whose publish failed.
C3_PublishFailed ==
    \E k \in About(out, 1) : out[k].e = "publish" /\ out[k].tag = "error"

\* C4 (as stated): on approve the sender is notified only after the content is
\* published and SENT is written: every notification of an approval in the
\* handler's calls comes after a successful publish of that submission, and the
\* submission is then SENT.
C4_NotifyOnlyAfterPublish ==
    \A i \in DOMAIN submissions : \A k \in About(out, i) :
        (out[k].e = "notify" /\ out[k].tag \in {"approved", "sent"})
        => /\ \E j \in About(out, i) :
                 j < k /\ out[j].e = "publish" /\ out[j].tag = "ok"
           /\ submissions[i].status = STATUS_SENT

\* C5: a handler changes a submission, publishes it or notifies its sender only
\* when the user it answers may moderate the submission's channel by the
\* registry as it stands when the decision arrives (and by what the platform
\* answers then); a user who may not is answered "access denied" and nothing
\* changes.
C5_DecisionNeedsPrivilege ==
    [][\A i \in DOMAIN submissions :
          LET chat == submissions[i].chat_id
              may(u) == CanModerateRef(chat, u, AnswerTo(out', u, chat))
              touched ==
                  \/ submissions'[i] # submissions[i]
                  \/ published'[i] # published[i]
                  \/ \E k \in About(out', i) : out'[k].e \in {"publish", "notify"}
          IN  /\ touched => \E u \in Deciders(out', i) : may(u)
              /\ \A u \in Deciders(out', i) :
                    (submissions[i].status = STATUS_PENDING /\ ~may(u))
                    => /\ out'[Len(out')] = Reply(u, "access_denied", i)
                       /\ submissions' = submissions
                       /\ published' = published]_vars

\* C5 witness: user 1 owned channel 1 (and set its mode to "selected"), the
\* channel then became user 2's, and user 1's decision on the pending
\* submission 1 was turned away.
C5_FormerOwnerDenied ==
    /\ out = <<Reply(1, "access_denied", 1)>>
    /\ channels[1].owner_user_id = 2
    /\ channels[1].reviewers_mode = "selected"
    /\ submissions[1].status = STATUS_PENDING

\* C6: can_moderate is the rule of the specification, for every channel
\* (registered or not), every user and every answer of the platform.
C6_CanModerateIsTheRule ==
    \A c \in Chats, u \in Users \cup {3}, ans \in MemberAnswers :
        can_moderate(c, u, ans) = CanModerateRef(c, u, ans)

\* C6 witness: under "admins" the platform named user 2, who is not the owner,
\* an administrator, and user 2's decision went through.
C6_AdminDecided ==
    /\ 1 \in DOMAIN channels
    /\ channels[1].reviewers_mode = "admins"
    /\ channels[1].owner_user_id = 1
    /\ Len(out) > 1
    /\ out[1] = Query("get_chat_member", 2, 1, "administrator")
    /\ \E k \in DOMAIN out : out[k] = Reply(2, "rejected", 1)

\* The user the last handler answered: who sent the update.
Actors(calls) == {calls[k].to : k \in {j \in DOMAIN calls : calls[j].e = "reply"}}

\* The handler's calls show a bind of chat c by user u that the platform
\* vouched for: the reference resolved, the bot is an administrator, u is the
\* creator.
BindVerified(calls, c, u) ==
    /\ Len(calls) >= 3
    /\ calls[1] = Query("get_chat", 0, c, "ok")
    /\ calls[2] = Query("get_chat_member", 0, c, "administrator")
    /\ calls[3] = Query("get_chat_member", u, c, "creator")

\* C7: a handler that asked the platform about a channel (a bind request with
\* a well-formed reference) writes the registry iff the reference resolved, the
\* bot is an administrator and the requester is the creator: then the record
\* of that channel is created (moderation on, mode "owner") or gets the new
\* owner and username and keeps its settings; otherwise the registry is
\* unchanged.  No other step creates a record or changes an owner.
C7_BindNeedsAllThree ==
    [][/\ \A u \in Actors(out') :
            (Len(out') > 0 /\ out'[1].e = "get_chat")
            => LET c == out'[1].chat
               IN  IF BindVerified(out', c, u)
                   THEN /\ DOMAIN channels' = DOMAIN channels \cup {c}
                        /\ \A d \in DOMAIN channels : d # c => channels'[d] = channels[d]
                        /\ channels'[c] =
                              IF c \in DOMAIN channels
                              THEN [channels[c] EXCEPT !.owner_user_id = u,
                                                       !.username = UsernameOf(c)]
                              ELSE [username |-> UsernameOf(c), owner_user_id |-> u,
                                    moderation |-> 1, reviewers_mode |-> "owner"]
                   ELSE channels' = channels
       /\ \A c \in DOMAIN channels' :
            (c \notin DOMAIN channels
               \/ channels'[c].owner_user_id # channels[c].owner_user_id
               \/ channels'[c].username # channels[c].username)
            => BindVerified(out', c, channels'[c].owner_user_id)]_vars

\* C7 witness: user 2, reported as an administrator of channel 1 and not its
\* creator, asked to bind it; the channel is still user 1's.
C7_AdministratorRefused ==
    /\ Len(out) = 4
    /\ out[3] = Query("get_chat_member", 2, 1, "administrator")
    /\ out[4] = Screen(2)
    /\ 1 \in DOMAIN channels
    /\ channels[1].owner_user_id = 1

\* The settings of channel c that only its owner may change.
OwnerOnly(ch, rv, dl, c) ==
    <<ch[c].moderation, ch[c].reviewers_mode,
      {r \in rv : r[1] = c}, {d \in dl : d[2] = c}>>

\* C8: a step that changes the moderation flag, the reviewer mode, the
\* allow-list or the deeplinks of a registered channel is made by the user who
\* owns the channel when the update arrives; and a user is put into the
\* reviewer add/remove flow for a channel only while owning it.
C8_OwnerOnlySettings ==
    [][/\ \A c \in DOMAIN channels :
            OwnerOnly(channels', channel_reviewers', deeplinks', c)
               # OwnerOnly(channels, channel_reviewers, deeplinks, c)
            => Actors(out') = {channels[c].owner_user_id}
       /\ \A u \in Users :
            (/\ USER_STATE'[u].mode \in {"rv_add_wait", "rv_del_wait"}
             /\ USER_STATE'[u] # USER_STATE[u])
            => IsOwner(USER_STATE'[u].rv_chat_id, u)]_vars

\* C8 witness: user 1 entered the reviewer flow as owner of channel 1, the
\* channel then became user 2's, and user 1's text was refused: the allow-list
\* is empty still.
C8_FormerOwnerRefused ==
    /\ out = <<Reply(1, "access_denied", 0)>>
    /\ 1 \in DOMAIN channels
    /\ channels[1].owner_user_id = 2
    /\ channel_reviewers = {}

\* The rule of the specification for consent, written from its text.
ConsentRef(u) ==
    \E r \in {user_consents[v] : v \in DOMAIN user_consents \cap {u}} :
        r.accepted = 1 /\ r.policy_hash = POLICY_HASH

Said(calls, c) == \E k \in DOMAIN calls : calls[k] = c

\* C9 (amended): user_is_allowed(u) holds iff u's one stored record has
\* accepted = 1 and the hash of the policy now loaded.  Nobody is allowed at
\* the start; an accept makes the user allowed, a decline not allowed (the
\* record is overwritten); when the policy hash changes, exactly the users
\* whose record is an acceptance of the newly loaded text are allowed (nobody,
\* if that text was never in force before); no other step changes it.
C9_AllowedIffCurrentAccept ==
    /\ \A u \in Users : ~user_is_allowed(u)
    /\ [](\A u \in Users : user_is_allowed(u) = ConsentRef(u))
    /\ [][\A u \in Users :
            user_is_allowed(u)' =
               IF Said(out', Reply(u, "policy_accept", 0)) THEN TRUE
               ELSE IF Said(out', Reply(u, "policy_decline", 0)) THEN FALSE
               ELSE IF POLICY_HASH' # POLICY_HASH
               THEN /\ u \in DOMAIN user_consents
                    /\ user_consents[u].accepted = 1
                    /\ user_consents[u].policy_hash = POLICY_HASH'
               ELSE user_is_allowed(u)]_vars

\* C9 (as stated): after the policy hash changes no user is allowed (until
\* they accept again).
C9_HashChangeGatesEveryone ==
    [][POLICY_HASH' # POLICY_HASH => \A u \in Users : ~user_is_allowed(u)']_vars

\* C9 witness: user 1's record is an acceptance of a policy text that is not
\* the one loaded, and user 1, asking for a menu, was shown the policy.
C9_StaleAcceptGated ==
    /\ out = <<Reply(1, "policy", 0)>>
    /\ 1 \in DOMAIN user_consents
    /\ user_consents[1].accepted = 1
    /\ user_consents[1].policy_hash # POLICY_HASH

\* C10: an update from a user who is not allowed, other than a policy accept
\* or decline, is answered with the policy and changes nothing: not the user
\* states, the registry, the allow-list, the deeplinks or the submissions, and
\* nothing is published.  A submission is created only by an allowed sender and
\* changed only by an allowed decider.
C10_GateBlocksEverything ==
    [][/\ \A u \in Actors(out') :
            (/\ ~ConsentRef(u)
             /\ ~Said(out', Reply(u, "policy_accept", 0))
             /\ ~Said(out', Reply(u, "policy_decline", 0)))
            => /\ out' = <<Reply(u, "policy", 0)>>
               /\ UNCHANGED <<USER_STATE, channels, channel_reviewers, deeplinks,
                              submissions, published>>
       /\ Len(submissions') > Len(submissions)
            => ConsentRef(submissions'[Len(submissions')].sender_user_id)
       /\ \A i \in DOMAIN submissions :
            submissions'[i] # submissions[i]
            => \E u \in Deciders(out', i) : ConsentRef(u)]_vars

\* C10 witness: user 1 staged content for channel 1, declined the policy, sent
\* a further update and was shown the policy; the content is still staged and
\* nothing was submitted.
C10_DeclinedUserGated ==
    /\ out = <<Reply(1, "policy", 0)>>
    /\ 1 \in DOMAIN user_consents
    /\ user_consents[1].accepted = 0
    /\ USER_STATE[1].selected_chat_id = 1
    /\ USER_STATE[1].pending # NoPending
    /\ submissions = <<>>

\* The calls of kind e among calls.
Kind(calls, e) == {k \in DOMAIN calls : calls[k].e = e}

\* User u holds a channel and a content to send.
Staged(u) ==
    /\ ConsentRef(u)
    /\ USER_STATE[u].selected_chat_id # NoChat
    /\ USER_STATE[u].pending # NoPending

\* The row a content staged by u makes in the queue of its channel.
RowOf(u, status) ==
    [chat_id |-> USER_STATE[u].selected_chat_id, sender_user_id |-> u,
     content_type |-> USER_STATE[u].pending.content_type,
     text |-> USER_STATE[u].pending.text,
     file_id |-> USER_STATE[u].pending.file_id, status |-> status]

\* User u is back at the menu with nothing selected and nothing staged.
Idle(s) ==
    /\ s.mode = ModeNone
    /\ s.selected_chat_id = NoChat
    /\ s.pending = NoPending

\* C11: when a user with a staged content confirms and the selected channel
\* is registered with moderation on, exactly one row is added to submissions:
\* PENDING, with the selected chat, the user as sender and the staged content
\* type, text and file; nothing is published; exactly one ticket is sent, to
\* the owner the channel has then, whatever its reviewers mode; and the user's
\* state is reset.
C11_ModeratedConfirmQueues ==
    [][\A u \in Users :
          LET chat == USER_STATE[u].selected_chat_id
          IN  (/\ Staged(u)
               /\ chat \in DOMAIN channels
               /\ channels[chat].moderation = 1
               /\ on_send_buttons(u, "send_confirm"))
              => /\ submissions' = Append(submissions, RowOf(u, STATUS_PENDING))
                 /\ published' = Append(published, 0)
                 /\ Kind(out', "publish") = {}
                 /\ Cardinality(Kind(out', "ticket")) = 1
                 /\ \A k \in Kind(out', "ticket") :
                       /\ out'[k].to = channels[chat].owner_user_id
                       /\ out'[k].sid = Len(submissions')
                 /\ Idle(USER_STATE'[u])
                 /\ UNCHANGED <<channels, channel_reviewers, deeplinks,
                                user_consents>>]_vars

\* C11 witness: user 2 staged a photo for channel 1, whose reviewers mode is
\* "selected", confirmed, and the photo waits in the queue with its caption as
\* typed; the ticket went to the owner, user 1.
C11_PhotoQueued ==
    /\ Len(out) = 3
    /\ out[1] = Reply(2, "queued", 0)
    /\ out[2].e = "ticket" /\ out[2].to = 1
    /\ channels[1].reviewers_mode = "selected"
    /\ submissions[Len(submissions)] =
          [chat_id |-> 1, sender_user_id |-> 2, content_type |-> "photo",
           text |-> " hi ", file_id |-> "f1", status |-> STATUS_PENDING]
    /\ Idle(USER_STATE[2])

\* The publish call carries the type and file of row and the text txt.
Carries(call, row, txt) ==
    /\ call.c.content_type = row.content_type
    /\ call.c.file_id = row.file_id
    /\ call.c.text = txt

\* An approve of submission i by u, whose publish the platform accepted, ends
\* with the row SENT, one publish call, made into the row's chat with the
\* row's type and file and the text txt(i), and a notice to the sender.
ApprovePublishes(txt(_)) ==
    \A u \in Users : \A i \in DOMAIN submissions :
        (/\ submissions[i].status = STATUS_PENDING
         /\ \E k \in Kind(out', "publish") : out'[k].tag = "ok"
         /\ on_moderation(u, "mod_ok", i))
        => LET row == submissions[i]
           IN  /\ submissions' = [submissions EXCEPT ![i].status = STATUS_SENT]
               /\ Cardinality(Kind(out', "publish")) = 1
               /\ \A k \in Kind(out', "publish") :
                     /\ out'[k].to = row.chat_id
                     /\ out'[k].sid = i
                     /\ Carries(out'[k], row, txt(i))
               /\ \E k \in Kind(out', "notify") :
                     /\ out'[k].to = row.sender_user_id
                     /\ out'[k].sid = i
                     /\ out'[k].tag \in {"approved", "sent"}

StoredText(i) == submissions[i].text

StrippedText(i) == strip(submissions[i].text)

\* C12 (amended): approving a PENDING submission, when the publish succeeds,
\* sets it SENT and makes exactly one publish call, into the submission's own
\* chat, carrying the stored content type and file and the stored text with
\* the white space around it removed; the sender is sent an approval notice.
C12_ApprovePublishesStripped == [][ApprovePublishes(StrippedText)]_vars

\* C12 (as stated): the one publish call carries the stored text itself.
C12_ApprovePublishesStored == [][ApprovePublishes(StoredText)]_vars

\* C12 witness: the photo of user 2, stored with the caption " hi ", was
\* approved by the owner and published into channel 1 with the caption "hi".
C12_PhotoApproved ==
    /\ Len(submissions) >= 1
    /\ submissions[1].status = STATUS_SENT
    /\ submissions[1].text = " hi "
    /\ \E k \in Kind(out, "publish") :
          /\ out[k].tag = "ok"
          /\ out[k].to = 1
          /\ out[k].c = Pending("photo", "hi", "f1")
    /\ Said(out, Reply(1, "approved_published", 1))

\* A confirm by u of a content staged for a registered channel with moderation
\* off, whose publish the platform accepted, makes one publish call, into that
\* channel, with the staged type and file and the text txt(u), adds one row,
\* SENT, holding the content as staged, and sends no ticket.
DirectPublishes(txt(_)) ==
    \A u \in Users :
        LET chat == USER_STATE[u].selected_chat_id
        IN  (/\ Staged(u)
             /\ chat \in DOMAIN channels
             /\ channels[chat].moderation = 0
             /\ on_send_buttons(u, "send_confirm")
             /\ \E k \in Kind(out', "publish") : out'[k].tag = "ok")
            => /\ Cardinality(Kind(out', "publish")) = 1
               /\ \A k \in Kind(out', "publish") :
                     /\ out'[k].to = chat
                     /\ Carries(out'[k], USER_STATE[u].pending, txt(u))
               /\ submissions' = Append(submissions, RowOf(u, STATUS_SENT))
               /\ published' = Append(published, 1)
               /\ Kind(out', "ticket") = {}

StagedText(u) == USER_STATE[u].pending.text

StrippedStagedText(u) == strip(USER_STATE[u].pending.text)

\* C13 (amended): confirming a staged content while the selected channel has
\* moderation off, when the publish succeeds, makes exactly one publish call
\* into that channel, with the staged content type and file and the staged
\* text with the white space around it removed, and exactly one new row, SENT,
\* holding the content as staged; no PENDING row and no ticket.
C13_DirectPublishesStripped == [][DirectPublishes(StrippedStagedText)]_vars

\* C13 (as stated): the one publish call carries the staged text itself.
C13_DirectPublishesStaged == [][DirectPublishes(StagedText)]_vars

\* C13 witness: user 2 typed " hi " for channel 1, moderation off; the text
\* was staged as "hi", published as "hi" and recorded as SENT.
C13_TextSentDirectly ==
    /\ Len(out) = 3
    /\ out[1] = post_to_channel(1, Pending("text", "hi", NoFile), 0, "ok")
    /\ out[2] = Reply(2, "sent", 0)
    /\ submissions[Len(submissions)] =
          [chat_id |-> 1, sender_user_id |-> 2, content_type |-> "text",
           text |-> "hi", file_id |-> NoFile, status |-> STATUS_SENT]
    /\ published[Len(published)] = 1

\* C14: when the publish of a direct post (moderation off) fails, the sender
\* is told of the error after the failed call, and no row, SENT or PENDING, is
\* added for the content: submissions and what was published are as before.
C14_DirectFailureRecordsNothing ==
    [][\A u \in Users :
          LET chat == USER_STATE[u].selected_chat_id
          IN  (/\ Staged(u)
               /\ chat \in DOMAIN channels
               /\ channels[chat].moderation = 0
               /\ on_send_buttons(u, "send_confirm")
               /\ \E k \in Kind(out', "publish") : out'[k].tag = "error")
              => /\ submissions' = submissions
                 /\ published' = published
                 /\ Cardinality(Kind(out', "publish")) = 1
                 /\ \E k \in Kind(out', "publish"), j \in Kind(out', "reply") :
                       /\ k < j
                       /\ out'[j] = Reply(u, "publish_error", 0)
                 /\ Kind(out', "ticket") = {}]_vars

\* C14 witness: the platform refused user 2's direct post into channel 1;
\* user 2 was told, and no row was added.
C14_DirectPostRefused ==
    /\ Len(out) = 3
    /\ out[1].e = "publish" /\ out[1].tag = "error" /\ out[1].to = 1
    /\ out[2] = Reply(2, "publish_error", 0)
    /\ submissions = <<>>

\* C15 (as stated): a failed direct post can be retried by confirming again:
\* after the handler that reported the failure, the user still holds the
\* selected channel and the staged content, so that a second send_confirm
\* makes a publish call again; the handler itself called the platform once.
C15_FailedDirectPostIsRetryable ==
    \A u \in Users :
        (/\ Said(out, Reply(u, "publish_error", 0))
         /\ \E k \in Kind(out, "publish") : out[k].tag = "error" /\ out[k].sid = 0)
        => /\ Cardinality(Kind(out, "publish")) = 1
           /\ USER_STATE[u].selected_chat_id # NoChat
           /\ USER_STATE[u].pending # NoPending
           /\ ENABLED (/\ on_send_buttons(u, "send_confirm")
                       /\ Kind(out', "publish") # {})

\* C16: whatever state an allowed user is in, a send_cancel or a menu_back of
\* that user leaves the user with mode none, no selected chat and no staged
\* content, and changes nothing that is stored: consents, channels,
\* allow-lists, deeplinks, submissions, and what was published; the state of
\* the other users is untouched.
C16_CancelAndBackReset ==
    [][\A u \in Users :
          (/\ ConsentRef(u)
           /\ \/ on_send_buttons(u, "send_cancel")
              \/ on_menu_back(u))
          => /\ Idle(USER_STATE'[u])
             /\ \A v \in Users \ {u} : USER_STATE'[v] = USER_STATE[v]
             /\ UNCHANGED <<POLICY_HASH, db, published>>]_vars

\* C16 witness: user 1 cancelled, and holds neither a channel nor a content;
\* the channel user 1 bound, its link and the allow-list mode entered before
\* are as they were.
C16_Cancelled ==
    /\ out = <<Reply(1, "cancelled", 0)>>
    /\ Idle(USER_STATE[1])
    /\ USER_STATE[1].rv_chat_id = 1
    /\ 1 \in DOMAIN channels
    /\ deeplinks # {}

\* The cycle of reviewer modes, written from the specification's text.
CycleRef(m) ==
    CASE m = "owner" -> "admins"
      [] m = "admins" -> "selected"
      [] m = "selected" -> "owner"

\* C17: a mode-change action of the owner of a channel moves reviewers_mode
\* one step along owner -> admins -> selected -> owner and changes nothing
\* else of the channel (moderation, owner, username) nor the allow-list; no
\* step moves the mode in any other way; three steps along the cycle lead
\* back to where they started.
C17_ModeCycles ==
    [][\A c \in DOMAIN channels :
          LET m == channels[c].reviewers_mode
          IN  /\ c \in DOMAIN channels'
              /\ channels'[c].reviewers_mode \in {m, CycleRef(m)}
              /\ CycleRef(CycleRef(CycleRef(m))) = m
              /\ \A u \in Users :
                    (/\ ConsentRef(u)
                     /\ channels[c].owner_user_id = u
                     /\ on_menu_ch_reviewers_mode(u, c))
                    => /\ channels' =
                            [channels EXCEPT ![c].reviewers_mode = CycleRef(m)]
                       /\ UNCHANGED <<channel_reviewers, deeplinks, submissions,
                                      user_consents, USER_STATE>>]_vars

\* C17 witness: a mode change of channel 1 has just brought it back to
\* "owner", the mode it was bound with, with a user on its allow-list.
C17_BackToOwner ==
    /\ 1 \in DOMAIN channels
    /\ channels[1].reviewers_mode = "owner"
    /\ Said(out, event_log("reviewers_mode_changed", 1, 0))
    /\ channel_reviewers # {}

\* The codes a user may arrive with: those of the channels and one of a chat
\* no link is ever issued for.
Codes == {make_code_for_chat(c) : c \in Chats \cup {3}}

\* C18: the code of a channel depends on the channel alone: every stored
\* mapping pairs a chat with make_code_for_chat of it, so issuing a link again
\* gives the same code and each channel has at most one mapping; a code no
\* link was issued with resolves to nothing; a code a link was issued with
\* resolves to the chat it was issued for, and keeps doing so: no step removes
\* or redirects a mapping, and an owner's ch_link step adds exactly the
\* channel's own mapping.
C18_CodesAreStable ==
    [][/\ \A d \in deeplinks : d[1] = make_code_for_chat(d[2])
       /\ \A c \in Chats : Cardinality({d \in deeplinks : d[2] = c}) <= 1
       /\ \A code \in Codes :
             IF \E c \in Chats : <<code, c>> \in deeplinks
             THEN <<code, resolve_deeplink(code)>> \in deeplinks
             ELSE resolve_deeplink(code) = NoChat
       /\ \A d \in deeplinks :
             /\ resolve_deeplink(d[1]) = d[2]
             /\ d \in deeplinks'
       /\ \A u \in Users, c \in DOMAIN channels :
             (/\ ConsentRef(u)
              /\ channels[c].owner_user_id = u
              /\ on_menu_ch_link(u, c))
             => deeplinks' = deeplinks \cup {<<make_code_for_chat(c), c>>}]_vars

\* C18 witness: links were issued for both channels and both resolve, channel
\* 1 has passed to user 2, user 2 arrived with the code of channel 2, and the
\* code of chat 3 resolves to nothing.
C18_IssuedTwice ==
    /\ Cardinality(deeplinks) = 2
    /\ 1 \in DOMAIN channels
    /\ channels[1].owner_user_id = 2
    /\ USER_STATE[2].selected_chat_id = 2
    /\ resolve_deeplink(make_code_for_chat(1)) = 1
    /\ resolve_deeplink(make_code_for_chat(2)) = 2
    /\ resolve_deeplink(make_code_for_chat(3)) = NoChat

\* C19: a start with a code that resolves changes only the user's selected
\* chat, to the chat of the code: the mode and the staged content stay, and
\* so do the registry, the allow-lists, the links and the submissions; a
\* start with a code that does not resolve, or with none, changes nothing.
\* The code authorises nothing: when content is confirmed, whichever way its
\* channel was selected, a publish call is made only into a channel that is
\* registered with moderation off at that moment; with moderation on the
\* content is queued as PENDING and not published; for a chat that is not
\* registered the confirm is refused and nothing is stored or published.
C19_CodeOnlySelects ==
    [][\A u \in Users :
          /\ ConsentRef(u)
             => \A code \in {NoCode, make_code_for_chat(1), make_code_for_chat(2)} :
                   start_cmd(u, code)
                   => /\ UNCHANGED <<POLICY_HASH, db, published>>
                      /\ USER_STATE' =
                           IF \E c \in Chats : <<code, c>> \in deeplinks
                           THEN [USER_STATE EXCEPT ![u].selected_chat_id =
                                    CHOOSE c \in Chats : <<code, c>> \in deeplinks]
                           ELSE USER_STATE
          /\ (Staged(u) /\ on_send_buttons(u, "send_confirm"))
             => LET chat == USER_STATE[u].selected_chat_id
                    registered == chat \in DOMAIN channels
                IN  /\ \A k \in Kind(out', "publish") :
                          /\ registered
                          /\ channels[chat].moderation = 0
                          /\ out'[k].to = chat
                    /\ (registered /\ channels[chat].moderation = 1)
                       => /\ submissions' = Append(submissions,
                                                   RowOf(u, STATUS_PENDING))
                          /\ published' = Append(published, 0)
                    /\ ~registered
                       => /\ Said(out', Reply(u, "channel_unregistered", 0))
                          /\ UNCHANGED <<db, published>>]_vars

\* C19 witness: user 2 arrived with the code of channel 1, whose moderation is
\* on: channel 1 is selected, and user 2 is in no mode and has staged nothing.
C19_ArrivedByLink ==
    /\ out = <<Screen(2)>>
    /\ USER_STATE[2] = [DefaultState EXCEPT !.selected_chat_id = 1]
    /\ <<make_code_for_chat(1), 1>> \in deeplinks
    /\ channels[1].moderation = 1

\* C20: when an allowed user who has no selected chat and is in no mode, or
\* waiting for content, sends a text, whatever the text, the handler answers
\* with a prompt and stages nothing: the staged content stays empty, mode and
\* selected chat are as before, and nothing is stored or published.
C20_NoChannelNoStaging ==
    [][\A u \in Users :
          (/\ ConsentRef(u)
           /\ USER_STATE[u].selected_chat_id = NoChat
           /\ USER_STATE[u].mode \in {ModeNone, "send_wait_content"}
           /\ \E t \in TextIn, plat \in {PlatOk, PlatNoChat} : on_text(u, t, plat))
          => /\ out' = <<Screen(u)>>
             /\ USER_STATE'[u].pending = NoPending
             /\ UNCHANGED <<USER_STATE, POLICY_HASH, db, published>>]_vars

\* C20 witness: user 2, allowed, with no channel selected and in no mode, was
\* answered with a prompt; a channel is registered and moderation is off, so a
\* staged text would have gone out on confirm.
C20_Prompted ==
    /\ out = <<Screen(2)>>
    /\ ConsentRef(2)
    /\ USER_STATE[2] = DefaultState
    /\ 1 \in DOMAIN channels
    /\ channels[1].moderation = 0
    /\ ENABLED (on_text(2, " hi ", PlatOk) /\ UNCHANGED USER_STATE)

\* What a ticket or a published message shows of a content: its type, its
\* text stripped, its file.  The sender is no part of it.
Shown(ctype, text, fid) ==
    Pending(ctype, strip(text), IF ctype = "text" THEN NoFile ELSE fid)

WaitModes == Modes \ {ModeNone}

\* The menu actions of user u that enter a mode.
MenuEnters(u) ==
    \/ \E data \in {"send_pick_channel", "ctl_bind"} : on_menu_enter(u, data)
    \/ \E data \in {"rv_add", "rv_del"}, c \in Chats : on_menu_rv(u, data, c)

\* C22 (as stated): a user's mode becomes a wait mode only by a menu action of
\* that user; in particular a text, a media message or a start leaves a user
\* who is in no mode in no mode.
C22_WaitModesOnlyByMenu ==
    [][\A u \in Users :
          (/\ USER_STATE'[u].mode # USER_STATE[u].mode
           /\ USER_STATE'[u].mode \in WaitModes)
          => MenuEnters(u)]_vars

\* C23: a channel enters the registry only by a bind the platform vouched
\* for, with moderation on and reviewers mode "owner"; a later vouched bind of
\* the same chat changes only its username and owner and leaves its
\* moderation, its reviewers mode, the allow-lists, the links and the
\* submissions as they are, so that a bind by the owner it already has
\* changes nothing; no step removes a channel.
C23_RebindKeepsSettings ==
    [][\A c \in Chats :
          /\ c \in DOMAIN channels => c \in DOMAIN channels'
          /\ (c \notin DOMAIN channels /\ c \in DOMAIN channels')
             => /\ channels'[c].moderation = 1
                /\ channels'[c].reviewers_mode = "owner"
                /\ BindVerified(out', c, channels'[c].owner_user_id)
          /\ \A u \in Users :
                (/\ c \in DOMAIN channels
                 /\ ConsentRef(u)
                 /\ USER_STATE[u].mode = "ctl_bind_wait"
                 /\ BindVerified(out', c, u))
                => /\ channels' = [channels EXCEPT
                                      ![c].owner_user_id = u,
                                      ![c].username = channels'[c].username]
                   /\ channels[c].owner_user_id = u => channels' = channels
                   /\ UNCHANGED <<channel_reviewers, deeplinks, submissions,
                                  published>>]_vars

\* C23 witness: channel 1, with moderation switched off, reviewers mode
\* "selected" and a user on its allow-list, has just been bound again, by user
\* 2, who owns it now; the settings are as they were.
C23_ReboundWithSettings ==
    /\ 1 \in DOMAIN channels
    /\ BindVerified(out, 1, 2)
    /\ channels[1] = [username |-> UsernameOf(1), owner_user_id |-> 2,
                      moderation |-> 0, reviewers_mode |-> "selected"]
    /\ channel_reviewers # {}

\* The PENDING submissions of channel c.
PendingOf(c) ==
    {i \in DOMAIN submissions :
        submissions[i].chat_id = c /\ submissions[i].status = STATUS_PENDING}

\* The place of submission i among the PENDING submissions of c, newest first.
PlaceOf(c, i) == Cardinality({j \in PendingOf(c) : j > i}) + 1

Smaller(a, b) == IF a < b THEN a ELSE b

\* The queue pages of the last handler.
Pages == {k \in DOMAIN out : out[k].e = "reply" /\ out[k].tag = "queue"}

\* C24: a queue page of a channel at offset o is shown only to a user who may
\* moderate the channel; it holds at most 10 submissions, all PENDING and of
\* that channel, in strictly descending id order, and they are the items
\* o+1..o+10 of that order; the total is the number of PENDING submissions of
\* the channel; the backward cursor max(0, o-10) is offered iff o > 0 and the
\* forward cursor o+10 iff o+10 < total.
C24_QueuePage ==
    \A k \in Pages :
        LET page == out[k].c
            c == out[k].chat
            u == out[k].to
            o == page.offset
            items == page.items
            total == Cardinality(PendingOf(c))
            rest == IF total > o THEN total - o ELSE 0
        IN  /\ CanModerateRef(c, u, AnswerTo(out, u, c))
            /\ Len(items) = Smaller(10, rest)
            /\ \A n \in DOMAIN items :
                  /\ items[n][1] \in PendingOf(c)
                  /\ PlaceOf(c, items[n][1]) = o + n
                  /\ items[n][2] = submissions[items[n][1]].content_type
                  /\ items[n][3] = submissions[items[n][1]].text
            /\ \A n \in DOMAIN items, m \in DOMAIN items :
                  n < m => items[n][1] > items[m][1]
            /\ page.total = total
            /\ (page.back # NoCursor) <=> (o > 0)
            /\ o > 0 => page.back = (IF o - 10 > 0 THEN o - 10 ELSE 0)
            /\ (page.fwd # NoCursor) <=> (o + 10 < total)
            /\ o + 10 < total => page.fwd = o + 10

\* C24 witness: a middle page of ten items with both cursors, shown to the
\* user on the allow-list after some submission of the channel was decided.
C24_MiddlePage ==
    \E k \in Pages :
        /\ out[k].to = 2
        /\ out[k].c.offset = 10
        /\ Len(out[k].c.items) = 10
        /\ out[k].c.back = 0
        /\ out[k].c.fwd = 20
        /\ \E i \in DOMAIN submissions :
              submissions[i].chat_id = out[k].chat /\ submissions[i].status = STATUS_SENT

\* Submission sid is not there or is no longer PENDING.
Stale(sid) ==
    sid \notin DOMAIN submissions \/ submissions[sid].status # STATUS_PENDING

\* The calls that show a ticket with its approve and reject buttons.
Tickets(calls) ==
    {k \in DOMAIN calls : calls[k].e = "ticket" \/ calls[k].tag = "ticket"}

\* C25: when a user who may moderate the channel opens a queued item whose
\* submission does not exist or is no longer PENDING, the answer is "already
\* processed", no ticket with approve and reject controls is shown, and no
\* state changes.
C25_StaleItemOpensNothing ==
    [][\A u \in Users, c \in Chats,
          sid \in {1, 2, 3, Len(submissions), Len(submissions) + 1} :
          (/\ Stale(sid)
           /\ CanModerateRef(c, u, "member")
           /\ on_menu_q_open(u, c, sid, "member"))
          => /\ Said(out', Reply(u, "already_processed", sid))
             /\ Tickets(out') = {}
             /\ UNCHANGED <<db, USER_STATE, published, POLICY_HASH>>]_vars

\* C25 witness: the user on the allow-list has opened an item that was
\* approved in the meantime and was told so.
C25_OpenedAfterDecision ==
    \E sid \in DOMAIN submissions :
        /\ submissions[sid].status = STATUS_SENT
        /\ Said(out, Reply(2, "already_processed", sid))

\* Text t, as the pick branch reads it, is a well-formed reference that the
\* platform does not resolve (access is FALSE) or that names a chat outside the
\* registry.
NamesNoChannel(t, access) ==
    LET ref == normalize_channel_input(strip(t))
    IN  /\ CHANNEL_INPUT_RE(ref)
        /\ (~access \/ ChatNamed(ref) \notin DOMAIN channels)

\* C26: every submission's chat_id is a registered channel, when the row is
\* made and ever after.  A text that names an unregistered or unresolvable
\* channel while the user picks a channel leaves the selected chat and the mode
\* as they are; so no user ever holds a selected chat outside the registry, and
\* a confirm by a user whose selected chat is not in the registry makes no
\* submission, publishes nothing and resets the user's state.
C26_SubmissionsGoToRegisteredChannels ==
    [][/\ \A i \in DOMAIN submissions' : submissions'[i].chat_id \in DOMAIN channels'
       /\ \A u \in Users :
             USER_STATE'[u].selected_chat_id \in DOMAIN channels' \cup {NoChat}
       /\ \A u \in Users, t \in TextIn, plat \in {PlatOk, PlatNoChat} :
             (/\ USER_STATE[u].mode = "send_pick_channel"
              /\ NamesNoChannel(t, plat[1])
              /\ on_text(u, t, plat))
             => /\ USER_STATE'[u].selected_chat_id = USER_STATE[u].selected_chat_id
                /\ USER_STATE'[u].mode = "send_pick_channel"
                /\ UNCHANGED <<db, published>>
       /\ \A u \in Users :
             (/\ ConsentRef(u)
              /\ USER_STATE[u].selected_chat_id \notin DOMAIN channels
              /\ on_send_buttons(u, "send_confirm"))
             => /\ UNCHANGED <<db, published>>
                /\ Kind(out', "publish") = {}
                /\ Idle(USER_STATE'[u])]_vars

\* C26 witness: user 2, picking a channel, named channel 1 before anybody had
\* bound it and was refused: still picking, with no chat selected.
C26_UnregisteredRefused ==
    /\ out = <<Reply(2, "not_registered", 0)>>
    /\ 1 \notin DOMAIN channels
    /\ USER_STATE[2].mode = "send_pick_channel"
    /\ USER_STATE[2].selected_chat_id = NoChat

\* The calls of the last handler that did not go out.
Lost(calls) == {k \in DOMAIN calls : calls[k].e = "undelivered"}

\* C27: whichever of the ticket to the owner, the notices to the sender and
\* the operator events fail to go out, the handler's own transition takes
\* place: a confirm into a moderated channel adds the PENDING row and leaves
\* the user idle, an approve makes its one publish call and, when that
\* succeeded, makes the row SENT, and a reject makes it REJECTED.
C27_LostNoticeKeepsTransition ==
    [][\A net \in Nets :
          /\ \A u \in Users :
                LET chat == USER_STATE[u].selected_chat_id
                IN  (/\ Staged(u)
                     /\ chat \in DOMAIN channels
                     /\ channels[chat].moderation = 1
                     /\ on_send_buttons_lossy(u, "send_confirm", net))
                    => /\ submissions' = Append(submissions, RowOf(u, STATUS_PENDING))
                       /\ Idle(USER_STATE'[u])
          /\ \A u \in Users, i \in DOMAIN submissions :
                (/\ submissions[i].status = STATUS_PENDING
                 /\ ConsentRef(u)
                 /\ CanModerateRef(submissions[i].chat_id, u,
                                   AnswerTo(out', u, submissions[i].chat_id))
                 /\ on_moderation_lossy(u, "mod_ok", i, net))
                => /\ Cardinality(Kind(out', "publish")) = 1
                   /\ IF \E k \in Kind(out', "publish") : out'[k].tag = "ok"
                      THEN /\ submissions' =
                                 [submissions EXCEPT ![i].status = STATUS_SENT]
                           /\ published'[i] = 1
                      ELSE UNCHANGED <<submissions, published>>
          /\ \A u \in Users, i \in DOMAIN submissions :
                (/\ submissions[i].status = STATUS_PENDING
                 /\ ConsentRef(u)
                 /\ CanModerateRef(submissions[i].chat_id, u,
                                   AnswerTo(out', u, submissions[i].chat_id))
                 /\ on_moderation_lossy(u, "mod_no", i, net))
                => submissions' = [submissions EXCEPT ![i].status = STATUS_REJECTED]]_vars

\* C27 witness: submission 1 was approved and published although neither
\* notice reached its sender and the operator event was lost.
C27_SentUnnoticed ==
    /\ Len(submissions) >= 1
    /\ submissions[1].status = STATUS_SENT
    /\ published[1] = 1
    /\ Said(out, Undelivered(Notify(2, "approved", 1)))
    /\ Said(out, Undelivered(Notify(2, "sent", 1)))
    /\ Said(out, Undelivered(event_log("approved_sent", 1, 1)))

\* Text t, as the handler reads it, is no number.
NoNumber(t) == ~isdigit(strip(t))

\* Text t, as the handler reads it, is no channel reference.
NoReference(t) == ~CHANNEL_INPUT_RE(normalize_channel_input(strip(t)))

\* A text of user u that is malformed for the mode u is in, and that only the
\* users in Checked may be in a reviewer mode to type, leaves every table and
\* every interaction state as they are.
MalformedChangesNothing(Checked(_)) ==
    \A u \in Users, t \in TextIn, plat \in {PlatOk, PlatNoChat} :
        LET s == USER_STATE[u]
        IN  (/\ \/ s.mode \in {"rv_add_wait", "rv_del_wait"} /\ NoNumber(t) /\ Checked(u)
                \/ s.mode \in {"ctl_bind_wait", "send_pick_channel"} /\ NoReference(t)
             /\ on_text(u, t, plat))
            => UNCHANGED <<db, USER_STATE, published>>

\* User u owns the channel whose allow-list u set out to edit.
OwnsTarget(u) ==
    /\ USER_STATE[u].rv_chat_id \in DOMAIN channels
    /\ channels[USER_STATE[u].rv_chat_id].owner_user_id = u

AnyUser(u) == TRUE

\* C28 (amended): malformed input changes no state: a text that is no number,
\* typed in a reviewer mode by a user who still owns the target channel, leaves
\* the allow-list, the mode and the target channel as they are, and a text
\* that is no channel reference, typed while binding or picking, leaves the
\* registry, the selected chat and the mode as they are.
C28_MalformedByOwnerChangesNothing == [][MalformedChangesNothing(OwnsTarget)]_vars

\* C28 (as stated): the same for every user who is in a reviewer mode.
C28_MalformedChangesNothing == [][MalformedChangesNothing(AnyUser)]_vars

\* C28 witness: user 1, owner of channel 1 and about to add a reviewer, typed
\* a text that is no number and is still asked for one.
C28_AskedForNumber ==
    /\ out = <<Reply(1, "need_number", 0)>>
    /\ USER_STATE[1].mode = "rv_add_wait"
    /\ USER_STATE[1].rv_chat_id = 1
    /\ channels[1].owner_user_id = 1
    /\ channel_reviewers = {}

\* C29: in every reachable state and for every user, a user who is in mode
\* send_wait_content has a selected chat, and a user who has a staged content
\* has a selected chat: no content is staged without a target channel.
C29_StagedHasChannel ==
    \A u \in Users :
        /\ USER_STATE[u].mode = "send_wait_content"
              => USER_STATE[u].selected_chat_id # NoChat
        /\ USER_STATE[u].pending # NoPending
              => USER_STATE[u].selected_chat_id # NoChat

\* C29 witness: user 2 came back by the link of channel 1 after a sent
\* submission and has staged a photo for it.
C29_StagedAgain ==
    /\ Len(submissions) >= 1
    /\ USER_STATE[2].mode = "send_wait_content"
    /\ USER_STATE[2].selected_chat_id = 1
    /\ USER_STATE[2].pending = Pending("photo", " hi ", "f1")

\* C30 (as stated): content is delivered to the chat that was selected when it
\* was staged: every submission a confirm made, and every publish call a
\* confirm makes, is for the chat whose number the staged text carries, whether
\* or not the user opened the link of another channel or picked another
\* channel between staging and confirming.
C30_DeliveredWhereStaged ==
    /\ \A i \in DOMAIN submissions : submissions[i].chat_id = int(submissions[i].text)
    /\ \A k \in Kind(out, "publish") : out[k].chat = int(out[k].c.text)

\* C31: in every reachable state, whatever the order in which approvals and
\* rejections arrive, a submission that is REJECTED was never published, and a
\* submission that was published is SENT and was published once.
C31_RejectedNeverPublished ==
    \A i \in DOMAIN submissions :
        /\ submissions[i].status = STATUS_REJECTED => published[i] = 0
        /\ published[i] > 0 => (submissions[i].status = STATUS_SENT /\ published[i] = 1)

\* C31 witness: submission 1 was rejected, never published, and an approval
\* that arrived after the rejection was turned away.
C31_ApprovedAfterReject ==
    /\ Len(submissions) >= 1
    /\ submissions[1].status = STATUS_REJECTED
    /\ published[1] = 0
    /\ \E u \in Users : out = <<Reply(u, "already_processed", 1)>>

\* C32 (as stated): a ticket, the content of a submission with its approve and
\* reject controls, is shown on opening a queued item only to a user who may
\* moderate the channel the submission belongs to, whichever channel the
\* opened button names.
C32_TicketOnlyForOwnChannel ==
    \A k \in Tickets(out) :
        CanModerateRef(submissions[out[k].sid].chat_id, out[k].to, "member")

\* The last handler was a confirm of user u that ran into one of its branches:
\* it queued, published, failed to publish, or refused.
ConfirmProcessed(u) ==
    \E k \in DOMAIN out :
        /\ out[k].to = u
        /\ out[k].e \in {"reply", "undelivered"}
        /\ out[k].tag \in {"queued", "sent", "publish_error", "nothing_to_send",
                          "channel_unregistered"}

\* A confirm of user u that makes a submission or a publish call.
ConfirmDelivers(u) ==
    /\ on_send_buttons(u, "send_confirm")
    /\ (submissions' # submissions \/ Kind(out', "publish") # {})

\* A confirm of user u that is answered "nothing to send" and makes nothing.
ConfirmFindsNothing(u) ==
    /\ on_send_buttons(u, "send_confirm")
    /\ Said(out', Reply(u, "nothing_to_send", 0))
    /\ UNCHANGED <<db, published>>

\* C33 (as stated): a staged content yields at most one submission and at most
\* one publish: once a confirm of a user has been processed, a confirm the same
\* user sends again without staging anything is answered "nothing to send",
\* makes no submission and publishes nothing.
C33_ConfirmOnce ==
    \A u \in Users :
        ConfirmProcessed(u)
        => /\ ENABLED ConfirmFindsNothing(u)
           /\ ~ENABLED ConfirmDelivers(u)

\* C34: a user who does not own a registered channel, the owner before a
\* re-bind among them, has none of the owner's rights from the re-bind on: a
\* user id typed in the reviewer flow for that channel is refused, the
\* allow-list and every other table stay, and the user is back in no mode with
\* no target channel; and while the reviewers mode is "owner" a decision of
\* that user on a pending submission of the channel is refused and changes
\* nothing.
C34_FormerOwnerHasNoRights ==
    [][\A u \in Users, c \in Chats :
          (/\ c \in DOMAIN channels
           /\ channels[c].owner_user_id # u
           /\ ConsentRef(u))
          => /\ \A t \in {"1", "2"} :
                   (/\ USER_STATE[u].mode \in {"rv_add_wait", "rv_del_wait"}
                    /\ USER_STATE[u].rv_chat_id = c
                    /\ on_text(u, t, PlatOk))
                   => /\ out' = <<Reply(u, "access_denied", 0)>>
                      /\ UNCHANGED <<db, published>>
                      /\ USER_STATE'[u].mode = ModeNone
                      /\ USER_STATE'[u].rv_chat_id = NoChat
             /\ \A i \in DOMAIN submissions, data \in {"mod_ok", "mod_no"} :
                   (/\ channels[c].reviewers_mode = "owner"
                    /\ submissions[i].chat_id = c
                    /\ submissions[i].status = STATUS_PENDING
                    /\ on_moderation(u, data, i))
                   => /\ out' = <<Reply(u, "access_denied", i)>>
                      /\ UNCHANGED <<db, published, USER_STATE>>]_vars

\* C34 witness: channel 1, in reviewers mode "owner", went from user 1 to user
\* 2 while user 1 was about to add a reviewer; the user id user 1 then typed
\* was refused, the allow-list is empty and user 1 is in no mode.
C34_FormerOwnerRefused ==
    /\ out = <<Reply(1, "access_denied", 0)>>
    /\ 1 \in DOMAIN channels
    /\ channels[1].owner_user_id = 2
    /\ channels[1].reviewers_mode = "owner"
    /\ channel_reviewers = {}
    /\ USER_STATE[1].mode = ModeNone
    /\ USER_STATE[1].rv_chat_id = NoChat
    /\ Len(submissions) >= 1
    /\ submissions[1].status = STATUS_PENDING

\* The ids a queue page of channel c lists, for the first page.
Listed(c) ==
    LET page == list_pending_submissions(c, QUEUE_LIMIT, 0)
    IN  {page[k][1] : k \in DOMAIN page}

\* C35: a toggle by the owner flips the moderation flag of that channel between
\* 1 and 0 (so that a second toggle restores it) and changes nothing else: no
\* other setting, no submission, no publish, no interaction state.  While the
\* flag is 0 the PENDING submissions of the channel are listed in its queue,
\* and a decision on one of them by a user who may moderate goes through:
\* reject makes it REJECTED, approve publishes it and makes it SENT, or leaves
\* it PENDING when the publish fails.
C35_ToggleOnlyFlipsFlag ==
    [][\A c \in Chats :
          c \in DOMAIN channels
          => /\ channels[c].moderation \in {0, 1}
             /\ \A u \in Users :
                   (/\ channels[c].owner_user_id = u
                    /\ ConsentRef(u)
                    /\ Said(out', event_log("moderation_toggled", c, 0))
                    /\ on_menu_ch_toggle(u, c))
                   => /\ channels' = [channels EXCEPT ![c].moderation = 1 - @]
                      /\ Kind(out', "publish") = {}
                      /\ UNCHANGED <<user_consents, channel_reviewers, deeplinks,
                                     submissions, published, USER_STATE>>
             /\ channels[c].moderation = 0
                => /\ Listed(c) = PendingOf(c)
                   /\ \A i \in PendingOf(c), u \in Users :
                         (/\ ConsentRef(u)
                          /\ u \in Deciders(out', i)
                          /\ CanModerateRef(c, u, AnswerTo(out', u, c))
                          /\ \E data \in {"mod_ok", "mod_no"} : on_moderation(u, data, i))
                         => \/ submissions' =
                                  [submissions EXCEPT ![i].status = STATUS_REJECTED]
                            \/ /\ submissions' =
                                     [submissions EXCEPT ![i].status = STATUS_SENT]
                               /\ \E k \in Kind(out', "publish") : out'[k].tag = "ok"
                            \/ /\ UNCHANGED submissions
                               /\ \E k \in Kind(out', "publish") : out'[k].tag = "error"]_vars

\* C35 witness: submission 1 was queued while moderation of channel 1 was on,
\* the owner switched moderation off, and user 2, a reviewer, then approved
\* the submission, which was published.
C35_DecidedWhileOff ==
    /\ Len(submissions) >= 1
    /\ submissions[1].status = STATUS_SENT
    /\ published[1] = 1
    /\ channels[1].moderation = 0
    /\ Said(out, Reply(2, "approved_published", 1))

====
